---- MODULE Spec2Model ----
(***************************************************************************)
(* Verification model of                                                   *)
(*   - compiler/rustc_ast_lowering/src/format.rs  (format_args! lowering), *)
(*   - library/core/src/fmt/rt.rs                 (runtime State / FmtOp), *)
(*   - library/alloc/src/raw_rc.rs                (RawRc / RawWeak).       *)
(*                                                                         *)
(* The state machines of the module:                                       *)
(*   SpecRc   one reference counted allocation, operated on by threads;    *)
(*   SpecLife   that allocation from its construction on, with make_mut;   *)
(*   SpecLayout   the constructors over value layouts and pointer widths;  *)
(*   SpecDangling   the allocation beside dangling RawWeak handles;        *)
(*   SpecUnwrap   get_mut, try_unwrap and into_inner on the allocation;    *)
(*   SpecAlone   SpecLife with the operations run one at a time;          *)
(*   SpecRcLayout   blocks of every layout, allocated and deallocated;     *)
(*   SpecClosure   the constructors that run a closure, new_with and       *)
(*                 new_cyclic, with the closure returning or panicking;    *)
(*   SpecFmt / SpecLower / SpecInline   the lowering pipeline followed by  *)
(*            one formatting pass of the runtime engine.                   *)
(***************************************************************************)
EXTENDS Integers, Sequences, FiniteSets, TLC

VARIABLES
    \* ---- raw_rc.rs: one reference counted allocation ----
    strong,        \* RefCounts::strong
    weak,          \* RefCounts::weak
    rcs,           \* number of live RawRc handles to the allocation
    wks,           \* number of live non-dangling RawWeak handles
    pc,            \* per thread: position inside RawRc::drop / RawWeak::drop
    payload,       \* what the value memory holds: "init", "dropped", ...
    destroyed,     \* how many times the payload's lifetime was ended
    deallocs,      \* how many times the block was deallocated
    allocated,     \* the block is currently allocated
    uaf,           \* a count was read or written after deallocation
    lastOp,        \* the last operation that took effect, with its result
    \* ---- raw_rc.rs: construction and make_mut of that allocation ----
    ctor,          \* how far the construction of the allocation has come
    value_layout,  \* Layout of the value type, and the target's pointer width
    block,         \* the RcLayout allocated and the offsets used inside it
    new_block,     \* the allocation RawRc::make_mut moves or clones into
    self_ptr,      \* the allocation the handle given to make_mut points to
    dangling,      \* number of live dangling RawWeak handles
    moved_out,     \* how many times the payload was read out by value
    released,      \* the pointer and layout handed to Allocator::deallocate
    \* ---- format.rs / rt.rs: one format_args!() call site ----
    opts,          \* session: flatten_format_args, fmt_debug, pointer_size
    src,           \* the FormatArgs handed to lower_format_args
    flat,          \* the FormatArgs returned by flatten_format_args
    fmt,           \* the FormatArgs handed to expand_format_args
    stage,         \* position of the call site in the pipeline
    enc,           \* the FormatOpsEncoder after finish()
    chain,         \* the FmtOp chain built by FmtFnBuilder
    constructor,   \* the fmt::Arguments constructor the expansion calls
    estimated_capacity, \* the capacity literal handed to Arguments::new
    args_tuple,    \* the elements of the (&arg0, &arg1, ...) tuple
    evalIdx,       \* how many tuple elements have been evaluated
    evaluated,     \* ids of the argument expressions evaluated so far
    state,         \* rt::State of the formatting pass
    ip,            \* how many ops of the chain have run
    sink,          \* what the output sink received
    result         \* fmt::Result of the pass, "Pending" while it runs

rcVars == <<strong, weak, rcs, wks, pc, payload, destroyed, deallocs,
            allocated, uaf, lastOp>>

fmtVars == <<opts, src, flat, fmt, stage, enc, chain, constructor,
             estimated_capacity, args_tuple, evalIdx, evaluated, state, ip, sink,
             result>>

lifeVars == <<ctor, value_layout, block, new_block, self_ptr, dangling,
             moved_out, released>>

vars == <<rcVars, fmtVars, lifeVars>>

(***************************************************************************)
(* Bounds of the model.                                                    *)
(***************************************************************************)
NThreads == 2
MaxHandles == 3

Threads == 1..NThreads

(***************************************************************************)
(* RcOps: the reference counting policy.  Every method is one atomic       *)
(* read-modify-write of one counter (the atomic policy); a sequential      *)
(* policy is the special case of one thread.                               *)
(***************************************************************************)
increment_ref_count(count) == count + 1

decrement_ref_count(count) == count - 1

\* The strong count is incremented whatever its value.
RcOps_upgrade_FromZero(strong_count) == strong_count + 1

RcOps_upgrade(strong_count) ==
    IF strong_count # 0 THEN strong_count + 1 ELSE strong_count

\* The weak count is left as it is.
RcOps_downgrade_Skipped(weak_count) == weak_count

RcOps_downgrade(weak_count) == weak_count + 1

\* Any access to the RefCounts of a deallocated block is a use after free.
Touch == uaf \/ ~allocated

Idle(t) == pc[t] = "idle"

Room == rcs + wks < MaxHandles

(***************************************************************************)
(*            raw_rc.rs: the layout of a reference counted block           *)
(*                                                                         *)
(* A Layout is [size, align]; value_layout carries the pointer width of    *)
(* the target beside it. Addresses are byte offsets.                       *)
(***************************************************************************)
Max(a, b) == IF a >= b THEN a ELSE b

\* define_ref_counts!: two usize counters, aligned for atomic access.
size_of_RefCounts(pointer_width) == 2 * (pointer_width \div 8)

align_of_RefCounts(pointer_width) == pointer_width \div 8

\* isize::MAX of the target.  Sizes in the model stay below 2^31, so on the
\* 32 and 64 bit targets no size comes near it.
isize_MAX(pointer_width) == IF pointer_width = 16 THEN 32767 ELSE 2147483647

\* Layout::extend returns Ok: the padded size of the counts plus the size of
\* the value does not exceed isize::MAX rounded down to the alignment.
try_from_value_layout_is_ok(layout) ==
    LET counts == size_of_RefCounts(layout.pointer_width)
        offset == ((counts + layout.align - 1) \div layout.align) * layout.align
        align == Max(align_of_RefCounts(layout.pointer_width), layout.align)
    IN offset + layout.size <= isize_MAX(layout.pointer_width) - (align - 1)

\* Layout::extend: the value follows the counts, padded to its alignment.
try_from_value_layout(layout) ==
    LET counts == size_of_RefCounts(layout.pointer_width)
        offset == ((counts + layout.align - 1) \div layout.align) * layout.align
    IN [size |-> offset + layout.size,
        align |-> Max(align_of_RefCounts(layout.pointer_width), layout.align),
        pointer_width |-> layout.pointer_width]

from_value_layout_unchecked(layout) ==
    LET align == Max(align_of_RefCounts(layout.pointer_width), layout.align)
        offset == Max(size_of_RefCounts(layout.pointer_width), layout.align)
    IN [size |-> offset + layout.size, align |-> align,
        pointer_width |-> layout.pointer_width]

\* The value is taken to follow the counts at once.
value_offset_NoPadding(rc_layout) == size_of_RefCounts(rc_layout.pointer_width)

value_offset(rc_layout) ==
    Max(size_of_RefCounts(rc_layout.pointer_width), rc_layout.align)

value_size(rc_layout) == rc_layout.size - value_offset(rc_layout)

\* RcLayout::from_value_ptr_unchecked: T::RC_LAYOUT for a sized value, the
\* unchecked computation from the value's layout otherwise.
from_value_ptr_unchecked(sized, layout) ==
    IF sized THEN try_from_value_layout(layout) ELSE from_value_layout_unchecked(layout)

\* Nothing has been handed to Allocator::deallocate.
NoRelease == [rc_ptr |-> -1, rc_layout |-> [size |-> 0, align |-> 1, pointer_width |-> 64]]

\* deallocate_value_ptr: the block pointer and the layout it hands to
\* Allocator::deallocate.
deallocate_arguments(value_ptr, rc_layout) ==
    [rc_ptr |-> value_ptr - value_offset(rc_layout), rc_layout |-> rc_layout]

\* The counts are placed size_of::<RefCounts>() + 1 bytes before the value.
ref_counts_ptr_from_value_ptr_OffByOne(value_ptr, pointer_width) ==
    value_ptr - size_of_RefCounts(pointer_width) - 1

ref_counts_ptr_from_value_ptr(value_ptr, pointer_width) ==
    value_ptr - size_of_RefCounts(pointer_width)

\* Every allocation starts with weak count 0.
RefCounts_new_NoWeak(strong_count) == [weak |-> 0, strong |-> strong_count]

RefCounts_new(strong_count) == [weak |-> 1, strong |-> strong_count]

\* No block has been allocated.
NoBlock == [rc_layout |-> [size |-> 0, align |-> 1, pointer_width |-> 64],
            rc_ptr |-> -1, value_ptr |-> -1, ref_counts_ptr |-> -1]

\* init_rc_allocation: the value pointer of the block at rc_ptr, and where
\* the counts were written.
init_rc_allocation(rc_ptr, rc_layout) ==
    LET value_ptr == rc_ptr + value_offset(rc_layout)
    IN [rc_layout |-> rc_layout, rc_ptr |-> rc_ptr, value_ptr |-> value_ptr,
        ref_counts_ptr |->
            ref_counts_ptr_from_value_ptr(value_ptr, rc_layout.pointer_width)]

\* Addresses the allocator may return for a layout: multiples of its alignment.
AllocatorAddresses(rc_layout) == {rc_layout.align, 3 * rc_layout.align}

(***************************************************************************)
(* RawRc::clone: increment_strong_ref_count, then a new handle.            *)
(***************************************************************************)
RawRc_clone_NoIncrement(t) ==
    /\ Idle(t) /\ rcs >= 1 /\ Room
    /\ rcs' = rcs + 1
    /\ uaf' = Touch
    /\ lastOp' = "RawRc::clone"
    /\ UNCHANGED <<strong, weak, wks, pc, payload, destroyed, deallocs, allocated, fmtVars, lifeVars>>

RawRc_clone(t) ==
    /\ Idle(t) /\ rcs >= 1 /\ Room
    /\ strong' = increment_ref_count(strong)
    /\ rcs' = rcs + 1
    /\ uaf' = Touch
    /\ lastOp' = "RawRc::clone"
    /\ UNCHANGED <<weak, wks, pc, payload, destroyed, deallocs, allocated, fmtVars, lifeVars>>

(***************************************************************************)
(* RawRc::downgrade: R::downgrade on the weak count, then a new RawWeak.   *)
(***************************************************************************)
RawRc_downgrade(t) ==
    /\ Idle(t) /\ rcs >= 1 /\ Room
    /\ weak' = RcOps_downgrade(weak)
    /\ wks' = wks + 1
    /\ uaf' = Touch
    /\ lastOp' = "RawRc::downgrade"
    /\ UNCHANGED <<strong, rcs, pc, payload, destroyed, deallocs, allocated, fmtVars, lifeVars>>

(***************************************************************************)
(* RawWeak::clone on a non-dangling handle.                                *)
(***************************************************************************)
RawWeak_clone(t) ==
    /\ Idle(t) /\ wks >= 1 /\ Room
    /\ weak' = increment_ref_count(weak)
    /\ wks' = wks + 1
    /\ uaf' = Touch
    /\ lastOp' = "RawWeak::clone"
    /\ UNCHANGED <<strong, rcs, pc, payload, destroyed, deallocs, allocated, fmtVars, lifeVars>>

(***************************************************************************)
(* RawWeak::upgrade: R::upgrade decides; Some(RawRc) iff it incremented.   *)
(***************************************************************************)
RawWeak_upgrade_Unconditional(t) ==
    /\ Idle(t) /\ wks >= 1 /\ Room
    /\ strong' = increment_ref_count(strong)
    /\ rcs' = rcs + 1
    /\ lastOp' = "RawWeak::upgrade=Some"
    /\ uaf' = Touch
    /\ UNCHANGED <<weak, wks, pc, payload, destroyed, deallocs, allocated, fmtVars, lifeVars>>

RawWeak_upgrade(t) ==
    /\ Idle(t) /\ wks >= 1 /\ Room
    /\ strong' = RcOps_upgrade(strong)
    /\ rcs' = IF strong' # strong THEN rcs + 1 ELSE rcs
    /\ lastOp' = IF strong' # strong THEN "RawWeak::upgrade=Some"
                                     ELSE "RawWeak::upgrade=None"
    /\ uaf' = Touch
    /\ UNCHANGED <<weak, wks, pc, payload, destroyed, deallocs, allocated, fmtVars, lifeVars>>

(***************************************************************************)
(* RawRc::drop, first step: decrement_strong_ref_count; the last strong    *)
(* reference goes on to RawWeak::assume_init_drop.                         *)
(***************************************************************************)
RawRc_drop_AlwaysLast(t) ==
    /\ Idle(t) /\ rcs >= 1
    /\ rcs' = rcs - 1
    /\ strong' = decrement_ref_count(strong)
    /\ pc' = [pc EXCEPT ![t] = "assume_init_drop"]
    /\ uaf' = Touch
    /\ lastOp' = "RawRc::drop"
    /\ UNCHANGED <<weak, wks, payload, destroyed, deallocs, allocated, fmtVars, lifeVars>>

RawRc_drop(t) ==
    /\ Idle(t) /\ rcs >= 1
    /\ rcs' = rcs - 1
    /\ strong' = decrement_ref_count(strong)
    /\ pc' = [pc EXCEPT ![t] = IF strong' = 0 THEN "assume_init_drop" ELSE "idle"]
    /\ uaf' = Touch
    /\ lastOp' = "RawRc::drop"
    /\ UNCHANGED <<weak, wks, payload, destroyed, deallocs, allocated, fmtVars, lifeVars>>

(***************************************************************************)
(* RawWeak::assume_init_drop: the payload is dropped in place under a      *)
(* WeakGuard, whose drop then runs drop_unchecked.                         *)
(***************************************************************************)
\* No WeakGuard: a panic of the destructor leaves assume_init_drop without
\* releasing the weak reference.
assume_init_drop_NoGuard(t) ==
    /\ pc[t] = "assume_init_drop"
    /\ payload' = "dropped"
    /\ destroyed' = destroyed + 1
    /\ \E panicked \in BOOLEAN :
          /\ pc' = [pc EXCEPT ![t] = IF panicked THEN "idle" ELSE "drop_unchecked"]
          /\ lastOp' = IF panicked THEN "drop_in_place panicked" ELSE "drop_in_place"
    /\ UNCHANGED <<strong, weak, rcs, wks, deallocs, allocated, uaf, fmtVars, lifeVars>>

\* drop_in_place returns or unwinds; the WeakGuard is dropped either way.
assume_init_drop(t) ==
    /\ pc[t] = "assume_init_drop"
    /\ payload' = "dropped"
    /\ destroyed' = destroyed + 1
    /\ pc' = [pc EXCEPT ![t] = "drop_unchecked"]
    /\ \E panicked \in BOOLEAN :
          lastOp' = IF panicked THEN "drop_in_place panicked" ELSE "drop_in_place"
    /\ UNCHANGED <<strong, weak, rcs, wks, deallocs, allocated, uaf, fmtVars, lifeVars>>

(***************************************************************************)
(* RawWeak::drop on a non-dangling handle: straight to drop_unchecked.     *)
(***************************************************************************)
RawWeak_drop(t) ==
    /\ Idle(t) /\ wks >= 1
    /\ wks' = wks - 1
    /\ pc' = [pc EXCEPT ![t] = "drop_unchecked"]
    /\ lastOp' = "RawWeak::drop"
    /\ UNCHANGED <<strong, weak, rcs, payload, destroyed, deallocs, allocated, uaf, fmtVars, lifeVars>>

(***************************************************************************)
(* RawWeak::drop_unchecked: decrement_weak_ref_count; the last weak        *)
(* reference deallocates the block.                                        *)
(***************************************************************************)
drop_unchecked_AlwaysLast(t) ==
    /\ pc[t] = "drop_unchecked"
    /\ weak' = decrement_ref_count(weak)
    /\ pc' = [pc EXCEPT ![t] = "deallocate_value_ptr"]
    /\ uaf' = Touch
    /\ lastOp' = "drop_unchecked"
    /\ UNCHANGED <<strong, rcs, wks, payload, destroyed, deallocs, allocated, fmtVars, lifeVars>>

drop_unchecked(t) ==
    /\ pc[t] = "drop_unchecked"
    /\ weak' = decrement_ref_count(weak)
    /\ pc' = [pc EXCEPT ![t] = IF weak' = 0 THEN "deallocate_value_ptr" ELSE "idle"]
    /\ uaf' = Touch
    /\ lastOp' = "drop_unchecked"
    /\ UNCHANGED <<strong, rcs, wks, payload, destroyed, deallocs, allocated, fmtVars, lifeVars>>

deallocate_value_ptr(t) ==
    /\ pc[t] = "deallocate_value_ptr"
    /\ \E sized \in BOOLEAN :
       \E rc_layout \in {from_value_ptr_unchecked(sized, value_layout)} :
          released' = deallocate_arguments(block.value_ptr, rc_layout)
    /\ allocated' = FALSE
    /\ deallocs' = deallocs + 1
    /\ pc' = [pc EXCEPT ![t] = "idle"]
    /\ lastOp' = "deallocate"
    /\ UNCHANGED <<strong, weak, rcs, wks, payload, destroyed, uaf, fmtVars, ctor,
                   value_layout, block, new_block, self_ptr, dangling, moved_out>>

(***************************************************************************)
(*            raw_rc.rs: constructing the allocation                       *)
(*                                                                         *)
(* ctor: "start" nothing allocated; "built" a RawRc exists; "unique" a     *)
(* RawUniqueRc exists; "cyclic" new_cyclic is inside data_fn;              *)
(* "cyclic_written" data_fn has returned and its value is written;         *)
(* "alloc_error" a try_ constructor returned Err(AllocError);              *)
(* "handle_alloc_error" the out-of-memory handler was entered;             *)
(* "panicked" data_fn panicked; "dropped" the RawUniqueRc was dropped;     *)
(* "new_with" allocate_with_in is inside f; "new_with_panicked" f panicked.*)
(***************************************************************************)
\* The allocator's answer to one request: a block or AllocError.
Allocations(rc_layout) ==
    {[ok |-> TRUE, rc_ptr |-> a] : a \in AllocatorAddresses(rc_layout)}
    \cup {[ok |-> FALSE, rc_ptr |-> -1]}

\* What the value memory holds after each kind of allocation.
ValueAfter(kind) ==
    CASE kind = "value" -> "init"
      [] kind = "zeroed" -> "zeroed"
      [] OTHER -> "uninit"

\* A block came back: the counts are written, nothing else has happened yet.
Allocated(allocation, strong_count, kind) ==
    LET rc_layout == try_from_value_layout(value_layout)
        ref_counts == RefCounts_new(strong_count)
    IN /\ block' = init_rc_allocation(allocation.rc_ptr, rc_layout)
       /\ strong' = ref_counts.strong
       /\ weak' = ref_counts.weak
       /\ allocated' = TRUE
       /\ payload' = ValueAfter(kind)

\* try_handle_rc_allocation_result: RawRc::try_new, try_new_uninit,
\* try_new_zeroed.
RawRc_try_new(t) ==
    /\ Idle(t) /\ ctor = "start"
    /\ try_from_value_layout_is_ok(value_layout)
    /\ \E kind \in {"value", "uninit", "zeroed"} :
       \E allocation \in Allocations(try_from_value_layout(value_layout)) :
          IF allocation.ok
          THEN /\ Allocated(allocation, 1, kind)
               /\ rcs' = 1
               /\ ctor' = "built"
               /\ lastOp' = "RawRc::try_new=Ok"
          ELSE /\ ctor' = "alloc_error"
               /\ lastOp' = "RawRc::try_new=Err"
               /\ UNCHANGED <<strong, weak, rcs, allocated, payload, block>>
    /\ UNCHANGED <<wks, pc, destroyed, deallocs, uaf, value_layout, new_block, self_ptr,
                   dangling, moved_out, released,
                   fmtVars>>

\* handle_rc_allocation_result: RawRc::new, new_uninit, new_zeroed.
RawRc_new(t) ==
    /\ Idle(t) /\ ctor = "start"
    /\ try_from_value_layout_is_ok(value_layout)
    /\ \E kind \in {"value", "uninit", "zeroed"} :
       \E allocation \in Allocations(try_from_value_layout(value_layout)) :
          IF allocation.ok
          THEN /\ Allocated(allocation, 1, kind)
               /\ rcs' = 1
               /\ ctor' = "built"
               /\ lastOp' = "RawRc::new"
          ELSE /\ ctor' = "handle_alloc_error"
               /\ lastOp' = "handle_alloc_error"
               /\ UNCHANGED <<strong, weak, rcs, allocated, payload, block>>
    /\ UNCHANGED <<wks, pc, destroyed, deallocs, uaf, value_layout, new_block, self_ptr,
                   dangling, moved_out, released,
                   fmtVars>>

\* RawUniqueRc::new: RawWeak::new_uninit::<0>(), then the value is written.
RawUniqueRc_new(t) ==
    /\ Idle(t) /\ ctor = "start"
    /\ try_from_value_layout_is_ok(value_layout)
    /\ \E allocation \in Allocations(try_from_value_layout(value_layout)) :
          IF allocation.ok
          THEN /\ Allocated(allocation, 0, "value")
               /\ ctor' = "unique"
               /\ lastOp' = "RawUniqueRc::new"
          ELSE /\ ctor' = "handle_alloc_error"
               /\ lastOp' = "handle_alloc_error"
               /\ UNCHANGED <<strong, weak, allocated, payload, block>>
    /\ UNCHANGED <<rcs, wks, pc, destroyed, deallocs, uaf, value_layout, new_block, self_ptr,
                   dangling, moved_out, released,
                   fmtVars>>

\* RawRc::new_cyclic: RawWeak::new_uninit::<0>(), then data_fn is entered
\* with a reference to that weak handle.
RawRc_new_cyclic(t) ==
    /\ Idle(t) /\ ctor = "start"
    /\ try_from_value_layout_is_ok(value_layout)
    /\ \E allocation \in Allocations(try_from_value_layout(value_layout)) :
          IF allocation.ok
          THEN /\ Allocated(allocation, 0, "uninit")
               /\ ctor' = "cyclic"
               /\ lastOp' = "RawRc::new_cyclic"
          ELSE /\ ctor' = "handle_alloc_error"
               /\ lastOp' = "handle_alloc_error"
               /\ UNCHANGED <<strong, weak, allocated, payload, block>>
    /\ UNCHANGED <<rcs, wks, pc, destroyed, deallocs, uaf, value_layout, new_block, self_ptr,
                   dangling, moved_out, released,
                   fmtVars>>

\* RawUniqueRc::downgrade, and data_fn cloning the weak handle it is given:
\* RawWeak::clone.
RawUniqueRc_downgrade(t) ==
    /\ Idle(t) /\ ctor \in {"unique", "cyclic"} /\ Room
    /\ weak' = increment_ref_count(weak)
    /\ wks' = wks + 1
    /\ uaf' = Touch
    /\ lastOp' = "RawUniqueRc::downgrade"
    /\ UNCHANGED <<strong, rcs, pc, payload, destroyed, deallocs, allocated, fmtVars,
                   lifeVars>>

\* new_cyclic_impl: data_fn returned, from_weak_with_value writes its value.
from_weak_with_value(t) ==
    /\ Idle(t) /\ ctor = "cyclic"
    /\ payload' = "init"
    /\ ctor' = "cyclic_written"
    /\ lastOp' = "from_weak_with_value"
    /\ UNCHANGED <<strong, weak, rcs, wks, pc, destroyed, deallocs, allocated, uaf,
                   value_layout, block, new_block, self_ptr, dangling, moved_out, released,
                   fmtVars>>

\* The unwinding drops the value memory as RawUniqueRc::drop does.
data_fn_panic_DropsValue(t) ==
    /\ Idle(t) /\ ctor = "cyclic"
    /\ ctor' = "panicked"
    /\ pc' = [pc EXCEPT ![t] = "assume_init_drop"]
    /\ lastOp' = "data_fn panicked"
    /\ UNCHANGED <<strong, weak, rcs, wks, payload, destroyed, deallocs, allocated, uaf,
                   value_layout, block, new_block, self_ptr, dangling, moved_out, released,
                   fmtVars>>

\* new_cyclic_impl: data_fn panicked, the WeakGuard runs drop_unchecked.
data_fn_panic(t) ==
    /\ Idle(t) /\ ctor = "cyclic"
    /\ ctor' = "panicked"
    /\ pc' = [pc EXCEPT ![t] = "drop_unchecked"]
    /\ lastOp' = "data_fn panicked"
    /\ UNCHANGED <<strong, weak, rcs, wks, payload, destroyed, deallocs, allocated, uaf,
                   value_layout, block, new_block, self_ptr, dangling, moved_out, released,
                   fmtVars>>

\* unlock_strong_count leaves the strong count at 0.
RawUniqueRc_into_rc_NoUnlock(t) ==
    /\ Idle(t) /\ ctor \in {"unique", "cyclic_written"}
    /\ rcs' = 1
    /\ ctor' = "built"
    /\ uaf' = Touch
    /\ lastOp' = "RawUniqueRc::into_rc"
    /\ UNCHANGED <<strong, weak, wks, pc, payload, destroyed, deallocs, allocated,
                   value_layout, block, new_block, self_ptr, dangling, moved_out, released,
                   fmtVars>>

\* RawUniqueRc::into_rc: R::unlock_strong_count sets the strong count to 1.
RawUniqueRc_into_rc(t) ==
    /\ Idle(t) /\ ctor \in {"unique", "cyclic_written"}
    /\ strong' = 1
    /\ rcs' = 1
    /\ ctor' = "built"
    /\ uaf' = Touch
    /\ lastOp' = "RawUniqueRc::into_rc"
    /\ UNCHANGED <<weak, wks, pc, payload, destroyed, deallocs, allocated,
                   value_layout, block, new_block, self_ptr, dangling, moved_out, released,
                   fmtVars>>

\* RawUniqueRc::drop: RawWeak::assume_init_drop.
RawUniqueRc_drop(t) ==
    /\ Idle(t) /\ ctor = "unique"
    /\ ctor' = "dropped"
    /\ pc' = [pc EXCEPT ![t] = "assume_init_drop"]
    /\ lastOp' = "RawUniqueRc::drop"
    /\ UNCHANGED <<strong, weak, rcs, wks, payload, destroyed, deallocs, allocated, uaf,
                   value_layout, block, new_block, self_ptr, dangling, moved_out, released,
                   fmtVars>>

(***************************************************************************)
(*            raw_rc.rs: RawRc::make_mut                                   *)
(*                                                                         *)
(* The thread that calls make_mut keeps its handle out of rcs while the    *)
(* call runs: the handle is borrowed mutably and no other operation can    *)
(* use it.                                                                 *)
(***************************************************************************)
NoAllocation == [allocated |-> FALSE, strong |-> 0, weak |-> 0, payload |-> "none"]

\* allocate_with_bytes_in::<A, 1> / allocate_with_in::<A, _, 1>
NewAllocation(value) ==
    LET ref_counts == RefCounts_new(1)
    IN [allocated |-> TRUE, strong |-> ref_counts.strong, weak |-> ref_counts.weak,
        payload |-> value]

\* The weak count is not looked at.
RcOps_make_mut_IgnoreWeak(strong_count, weak_count) ==
    IF strong_count = 1 THEN "None" ELSE "Clone"

\* RcOps::make_mut, one atomic decision on the two counts.
RcOps_make_mut(strong_count, weak_count) ==
    IF strong_count = 1
    THEN (IF weak_count = 1 THEN "None" ELSE "Move")
    ELSE "Clone"

\* The positions of a thread inside RawRc::make_mut.  self_ptr is the pointer
\* of the one handle make_mut is called on, so one call is in progress at a time.
InMakeMut(t) ==
    pc[t] \in {"make_mut_move", "make_mut_clone", "make_mut_rc_drop",
               "make_mut_assume_init_drop", "make_mut_drop_unchecked",
               "make_mut_deallocate"}

\* The Move strategy leaves the strong count at 1.
make_mut_KeepStrong(t) ==
    /\ Idle(t) /\ ctor = "built" /\ rcs >= 1 /\ self_ptr = "old"
    /\ \A u \in Threads : ~InMakeMut(u)
    /\ LET strategy == RcOps_make_mut(strong, weak)
       IN /\ rcs' = IF strategy = "None" THEN rcs ELSE rcs - 1
          /\ pc' = [pc EXCEPT ![t] =
                      CASE strategy = "Move" -> "make_mut_move"
                        [] strategy = "Clone" -> "make_mut_clone"
                        [] OTHER -> "idle"]
          /\ lastOp' = "RawRc::make_mut=" \o strategy
    /\ uaf' = Touch
    /\ UNCHANGED <<strong, weak, wks, payload, destroyed, deallocs, allocated, fmtVars,
                   lifeVars>>

\* RawRc::make_mut, up to the strategy: Move has set the strong count to 0.
make_mut(t) ==
    /\ Idle(t) /\ ctor = "built" /\ rcs >= 1 /\ self_ptr = "old"
    /\ \A u \in Threads : ~InMakeMut(u)
    /\ LET strategy == RcOps_make_mut(strong, weak)
       IN /\ strong' = IF strategy = "Move" THEN 0 ELSE strong
          /\ rcs' = IF strategy = "None" THEN rcs ELSE rcs - 1
          /\ pc' = [pc EXCEPT ![t] =
                      CASE strategy = "Move" -> "make_mut_move"
                        [] strategy = "Clone" -> "make_mut_clone"
                        [] OTHER -> "idle"]
          /\ lastOp' = "RawRc::make_mut=" \o strategy
    /\ uaf' = Touch
    /\ UNCHANGED <<weak, wks, payload, destroyed, deallocs, allocated, fmtVars,
                   lifeVars>>

\* Move: allocate_with_bytes_in copies the value bytes into a new block;
\* a failed allocation enters the out-of-memory handler.
make_mut_move(t) ==
    /\ pc[t] = "make_mut_move"
    /\ \E ok \in BOOLEAN :
          IF ok
          THEN /\ new_block' = NewAllocation("moved")
               /\ payload' = "moved"
               /\ pc' = [pc EXCEPT ![t] = "make_mut_drop_unchecked"]
               /\ lastOp' = "allocate_with_bytes_in"
          ELSE /\ pc' = [pc EXCEPT ![t] = "handle_alloc_error"]
               /\ lastOp' = "handle_alloc_error"
               /\ UNCHANGED <<new_block, payload>>
    /\ UNCHANGED <<strong, weak, rcs, wks, destroyed, deallocs, allocated, uaf, ctor,
                   value_layout, block, self_ptr, dangling, moved_out, released,
                   fmtVars>>

\* Clone: allocate_with_in, the value is cloned into the new block.
make_mut_clone(t) ==
    /\ pc[t] = "make_mut_clone"
    /\ \E ok \in BOOLEAN :
          IF ok
          THEN /\ new_block' = NewAllocation(IF payload = "dropped" THEN "garbage" ELSE "cloned")
               /\ pc' = [pc EXCEPT ![t] = "make_mut_rc_drop"]
               /\ lastOp' = "allocate_with_in"
          ELSE /\ pc' = [pc EXCEPT ![t] = "handle_alloc_error"]
               /\ lastOp' = "handle_alloc_error"
               /\ UNCHANGED new_block
    /\ UNCHANGED <<strong, weak, rcs, wks, payload, destroyed, deallocs, allocated, uaf,
                   ctor, value_layout, block, self_ptr, dangling, moved_out, released,
                   fmtVars>>

\* The Clone strategy releases the old handle as the Move strategy does,
\* through the weak count only.
make_mut_rc_drop_AsWeak(t) ==
    /\ pc[t] = "make_mut_rc_drop"
    /\ weak' = decrement_ref_count(weak)
    /\ pc' = [pc EXCEPT ![t] = IF weak' = 0 THEN "make_mut_deallocate" ELSE "idle"]
    /\ self_ptr' = IF weak' = 0 THEN self_ptr ELSE "new"
    /\ uaf' = Touch
    /\ lastOp' = "RawRc::drop"
    /\ UNCHANGED <<strong, rcs, wks, payload, destroyed, deallocs, allocated, ctor,
                   value_layout, block, new_block, dangling, moved_out, released,
                   fmtVars>>

\* Clone: RawRc::drop of the old handle; SetRcPtrOnDrop then redirects the
\* handle unless assume_init_drop has to run first.
make_mut_rc_drop(t) ==
    /\ pc[t] = "make_mut_rc_drop"
    /\ strong' = decrement_ref_count(strong)
    /\ pc' = [pc EXCEPT ![t] = IF strong' = 0 THEN "make_mut_assume_init_drop" ELSE "idle"]
    /\ self_ptr' = IF strong' = 0 THEN self_ptr ELSE "new"
    /\ uaf' = Touch
    /\ lastOp' = "RawRc::drop"
    /\ UNCHANGED <<weak, rcs, wks, payload, destroyed, deallocs, allocated, ctor,
                   value_layout, block, new_block, dangling, moved_out, released,
                   fmtVars>>

make_mut_assume_init_drop(t) ==
    /\ pc[t] = "make_mut_assume_init_drop"
    /\ payload' = "dropped"
    /\ destroyed' = destroyed + 1
    /\ pc' = [pc EXCEPT ![t] = "make_mut_drop_unchecked"]
    /\ lastOp' = "drop_in_place"
    /\ UNCHANGED <<strong, weak, rcs, wks, deallocs, allocated, uaf, fmtVars, lifeVars>>

\* RawWeak::drop_unchecked of the old handle; SetRcPtrOnDrop then redirects
\* the handle unless the block has to be deallocated first.
make_mut_drop_unchecked(t) ==
    /\ pc[t] = "make_mut_drop_unchecked"
    /\ weak' = decrement_ref_count(weak)
    /\ pc' = [pc EXCEPT ![t] = IF weak' = 0 THEN "make_mut_deallocate" ELSE "idle"]
    /\ self_ptr' = IF weak' = 0 THEN self_ptr ELSE "new"
    /\ uaf' = Touch
    /\ lastOp' = "drop_unchecked"
    /\ UNCHANGED <<strong, rcs, wks, payload, destroyed, deallocs, allocated, ctor,
                   value_layout, block, new_block, dangling, moved_out, released,
                   fmtVars>>

make_mut_deallocate(t) ==
    /\ pc[t] = "make_mut_deallocate"
    /\ \E sized \in BOOLEAN :
       \E rc_layout \in {from_value_ptr_unchecked(sized, value_layout)} :
          released' = deallocate_arguments(block.value_ptr, rc_layout)
    /\ allocated' = FALSE
    /\ deallocs' = deallocs + 1
    /\ pc' = [pc EXCEPT ![t] = "idle"]
    /\ self_ptr' = "new"
    /\ lastOp' = "deallocate"
    /\ UNCHANGED <<strong, weak, rcs, wks, payload, destroyed, uaf, ctor, value_layout,
                   block, new_block, dangling, moved_out,
                   fmtVars>>

(***************************************************************************)
(*                      format.rs: the lowered AST                         *)
(*                                                                         *)
(* FormatArgs   [template, arguments]                                      *)
(* piece        Literal(symbol) | Placeholder [argument index, span,       *)
(*              format_trait, format_options]                              *)
(* expression   [id, kind, wrap, ...]; id stands for the expression's      *)
(*              span, wrap for the Paren / AddrOf around it.               *)
(* Argument indexes are 0-based as in the source; Ok(i) is i, Err is -1.   *)
(***************************************************************************)
NoCount == [kind |-> "None", n |-> 0]
CountLiteral(n) == [kind |-> "Literal", n |-> n]
CountArgument(index) == [kind |-> "Argument", n |-> index]

\* FormatOptions::default()
DefaultOptions ==
    [width |-> NoCount, precision |-> NoCount, alignment |-> "None",
     fill |-> "None", sign |-> "None", alternate |-> FALSE,
     zero_pad |-> FALSE, debug_hex |-> "None"]

Literal(symbol) ==
    [kind |-> "Literal", symbol |-> symbol, index |-> -1, span |-> 0,
     format_trait |-> "Display", format_options |-> DefaultOptions]

Placeholder(index, format_trait, format_options) ==
    [kind |-> "Placeholder", symbol |-> "", index |-> index, span |-> 0,
     format_trait |-> format_trait, format_options |-> format_options]

NoFormatArgs == [template |-> <<>>, arguments |-> <<>>]

NoLit == [kind |-> "None", symbol |-> "", n |-> <<>>, ty |-> "None"]

\* A path expression: opaque, evaluates to a value whose usize reading is val.
ExprPath(id, val) ==
    [id |-> id, kind |-> "Path", wrap |-> "None", lit |-> NoLit, val |-> val,
     fmt |-> NoFormatArgs]

ExprLit(id, lit) ==
    [id |-> id, kind |-> "Lit", wrap |-> "None", lit |-> lit,
     val |-> IF lit.kind = "Int" THEN lit.n[1] ELSE 0,
     fmt |-> NoFormatArgs]

ExprFormatArgs(id, wrap, template, arguments) ==
    [id |-> id, kind |-> "FormatArgs", wrap |-> wrap, lit |-> NoLit, val |-> 0,
     fmt |-> [template |-> template, arguments |-> arguments]]

LitStr(symbol) == [kind |-> "Str", symbol |-> symbol, n |-> <<>>, ty |-> "None"]
LitInt(n, ty) == [kind |-> "Int", symbol |-> "", n |-> n, ty |-> ty]
LitBool(b) == [kind |-> "Bool", symbol |-> "", n |-> <<>>, ty |-> "None"]

IsOk(index) == index >= 0

\* Expr::peel_parens_and_refs: the expression under any Paren / AddrOf.
peel_parens_and_refs(expr) == [expr EXCEPT !.wrap = "None"]

InRange(index, seq) == index >= 0 /\ index < Len(seq)

(***************************************************************************)
(* for_all_argument_indexes: f applied to the position index of every      *)
(* placeholder and to the index of every argument-sourced width and        *)
(* precision.                                                              *)
(***************************************************************************)
MapCount(count, f) ==
    IF count.kind = "Argument" /\ IsOk(count.n)
    THEN [count EXCEPT !.n = f[count.n]]
    ELSE count

for_all_argument_indexes(template, f) ==
    [i \in 1..Len(template) |->
        IF template[i].kind # "Placeholder" THEN template[i]
        ELSE [template[i] EXCEPT
                !.index = IF IsOk(@) THEN f[@] ELSE @,
                !.format_options.width = MapCount(@, f),
                !.format_options.precision = MapCount(@, f)]]

\* The indexes for_all_argument_indexes visits, in visiting order.
RECURSIVE ArgumentIndexes(_)
ArgumentIndexes(template) ==
    IF template = <<>> THEN <<>>
    ELSE LET p == Head(template)
             o == p.format_options
             v == IF p.kind = "Placeholder" /\ IsOk(p.index) THEN <<p.index>> ELSE <<>>
             w == IF p.kind = "Placeholder" /\ o.width.kind = "Argument" /\ IsOk(o.width.n)
                  THEN <<o.width.n>> ELSE <<>>
             q == IF p.kind = "Placeholder" /\ o.precision.kind = "Argument"
                     /\ IsOk(o.precision.n)
                  THEN <<o.precision.n>> ELSE <<>>
         IN v \o w \o q \o ArgumentIndexes(Tail(template))

(***************************************************************************)
(* flatten_format_args                                                     *)
(***************************************************************************)
\* Only Display placeholders are spliced.
CanFlatten_DisplayOnly(f, i) ==
    LET p == f.template[i + 1] IN
    /\ p.kind = "Placeholder"
    /\ p.format_trait = "Display"
    /\ IsOk(p.index)
    /\ peel_parens_and_refs(f.arguments[p.index + 1]).kind = "FormatArgs"
    /\ \A j \in 0..(Len(f.template) - 1) :
          \/ i = j
          \/ ~(f.template[j + 1].kind = "Placeholder"
               /\ f.template[j + 1].index = p.index)

\* The condition of the `if let` chain for the piece at (0-based) i.
CanFlatten(f, i) ==
    LET p == f.template[i + 1] IN
    /\ p.kind = "Placeholder"
    /\ p.format_trait \in {"Display", "Debug"}
    /\ IsOk(p.index)
    /\ peel_parens_and_refs(f.arguments[p.index + 1]).kind = "FormatArgs"
    /\ \A j \in 0..(Len(f.template) - 1) :
          \/ i = j
          \/ ~(f.template[j + 1].kind = "Placeholder"
               /\ f.template[j + 1].index = p.index)

\* The arguments after the splice: the inner arguments in place of the
\* nested one.
SpliceArguments(args, arg_index, inner) ==
    SubSeq(args, 1, arg_index) \o inner \o SubSeq(args, arg_index + 2, Len(args))

\* The body of the `if`: splice the nested FormatArgs at piece i.
Splice(f, i) ==
    LET arg_index == f.template[i + 1].index
        old_arg_offset == arg_index + 1
        fmt2 == peel_parens_and_refs(f.arguments[arg_index + 1]).fmt
        new_arg_offset == arg_index + Len(fmt2.arguments)
        outer == for_all_argument_indexes(f.template,
                    [index \in Nat |-> IF index >= old_arg_offset
                                       THEN index - old_arg_offset + new_arg_offset
                                       ELSE index])
        rest == SubSeq(outer, i + 2, Len(outer))
        inner == for_all_argument_indexes(fmt2.template,
                    [index \in Nat |-> index + arg_index])
    IN [template |-> SubSeq(outer, 1, i) \o inner \o rest,
        arguments |-> SpliceArguments(f.arguments, arg_index, fmt2.arguments)]

RECURSIVE flatten_loop_Advance(_, _)
flatten_loop_Advance(f, i) ==
    IF i >= Len(f.template) THEN f
    ELSE IF CanFlatten(f, i)
         THEN flatten_loop_Advance(Splice(f, i),
                                   i + Len(peel_parens_and_refs(
                                       f.arguments[f.template[i + 1].index + 1]).fmt.template))
         ELSE flatten_loop_Advance(f, i + 1)

RECURSIVE flatten_loop(_, _)
flatten_loop(f, i) ==
    IF i >= Len(f.template) THEN f
    ELSE IF CanFlatten(f, i)
         THEN flatten_loop(Splice(f, i), i)
         ELSE flatten_loop(f, i + 1)

flatten_format_args(f) == flatten_loop(f, 0)

(***************************************************************************)
(* try_inline_lit and inline_literals                                      *)
(***************************************************************************)
DigitChar(d) ==
    CASE d = 0 -> "0" [] d = 1 -> "1" [] d = 2 -> "2" [] d = 3 -> "3"
      [] d = 4 -> "4" [] d = 5 -> "5" [] d = 6 -> "6" [] d = 7 -> "7"
      [] d = 8 -> "8" [] OTHER -> "9"

\* u128: LimbCount limbs of 16 bits, the least significant first.
LimbBase == 65536
LimbCount == 8

\* n as u128, for 0 <= n < 2^31.
U128(n) ==
    [k \in 1..LimbCount |->
        IF k = 1 THEN n % LimbBase ELSE IF k = 2 THEN n \div LimbBase ELSE 0]

\* 2^bits - 1 as u128: iN::MAX is MaxOfBits(N - 1), uN::MAX is MaxOfBits(N).
MaxOfBits(bits) ==
    [k \in 1..LimbCount |->
        IF 16 * k <= bits THEN LimbBase - 1
        ELSE IF 16 * (k - 1) < bits THEN 2 ^ (bits - 16 * (k - 1)) - 1
        ELSE 0]

\* a <= b on u128, decided at the most significant limb that differs.
RECURSIVE U128LeFrom(_, _, _)
U128LeFrom(a, b, k) ==
    IF k = 0 THEN TRUE
    ELSE IF a[k] # b[k] THEN a[k] < b[k]
    ELSE U128LeFrom(a, b, k - 1)

U128Le(a, b) == U128LeFrom(a, b, LimbCount)

\* One step of the long division by 10: <<quotient limb, remainder>>.
DivStep(rem, limb) ==
    <<(rem * LimbBase + limb) \div 10, (rem * LimbBase + limb) % 10>>

\* <<n / 10, n % 10>>, from the most significant limb down.
DivMod10(n) ==
    LET s8 == DivStep(0, n[8])
        s7 == DivStep(s8[2], n[7])
        s6 == DivStep(s7[2], n[6])
        s5 == DivStep(s6[2], n[5])
        s4 == DivStep(s5[2], n[4])
        s3 == DivStep(s4[2], n[3])
        s2 == DivStep(s3[2], n[2])
        s1 == DivStep(s2[2], n[1])
    IN <<(<<s1[1], s2[1], s3[1], s4[1], s5[1], s6[1], s7[1], s8[1]>>), s1[2]>>

U128Zero == <<0, 0, 0, 0, 0, 0, 0, 0>>

\* u128::to_string
RECURSIVE to_string(_)
to_string(n) ==
    CHOOSE s \in {IF qr[1] = U128Zero THEN DigitChar(qr[2])
                  ELSE to_string(qr[1]) \o DigitChar(qr[2]) : qr \in {DivMod10(n)}} : TRUE

\* Size::signed_int_max / Size::unsigned_int_max of the target's pointer size.
signed_int_max(bits) == MaxOfBits(bits - 1)
unsigned_int_max(bits) == MaxOfBits(bits)

\* isize taken as 64 bits wide on every target.
int_ty_max_Pointer64(int_ty) ==
    CASE int_ty = "Isize" -> MaxOfBits(63)
      [] int_ty = "I8" -> MaxOfBits(7)
      [] int_ty = "I16" -> MaxOfBits(15)
      [] int_ty = "I32" -> MaxOfBits(31)
      [] int_ty = "I64" -> MaxOfBits(63)
      [] int_ty = "I128" -> MaxOfBits(127)

int_ty_max(int_ty) ==
    CASE int_ty = "Isize" -> signed_int_max(opts.pointer_size)
      [] int_ty = "I8" -> MaxOfBits(7)
      [] int_ty = "I16" -> MaxOfBits(15)
      [] int_ty = "I32" -> MaxOfBits(31)
      [] int_ty = "I64" -> MaxOfBits(63)
      [] int_ty = "I128" -> MaxOfBits(127)

uint_ty_max(uint_ty) ==
    CASE uint_ty = "Usize" -> unsigned_int_max(opts.pointer_size)
      [] uint_ty = "U8" -> MaxOfBits(8)
      [] uint_ty = "U16" -> MaxOfBits(16)
      [] uint_ty = "U32" -> MaxOfBits(32)
      [] uint_ty = "U64" -> MaxOfBits(64)
      [] uint_ty = "U128" -> MaxOfBits(128)

NoSymbol == [some |-> FALSE, symbol |-> ""]
SomeSymbol(s) == [some |-> TRUE, symbol |-> s]

SignedTys == {"Isize", "I8", "I16", "I32", "I64", "I128"}

\* Inlines string literals alone.
try_inline_lit_StrOnly(lit) ==
    IF lit.kind = "Str" THEN SomeSymbol(lit.symbol) ELSE NoSymbol

try_inline_lit(lit) ==
    CASE lit.kind = "Str" -> SomeSymbol(lit.symbol)
      [] lit.kind = "Int" ->
            LET max_literal ==
                    CASE lit.ty = "Unsuffixed" -> MaxOfBits(31)
                      [] lit.ty \in SignedTys -> int_ty_max(lit.ty)
                      [] OTHER -> uint_ty_max(lit.ty)
            IN IF U128Le(lit.n, max_literal)
               THEN SomeSymbol(to_string(lit.n)) ELSE NoSymbol
      [] OTHER -> NoSymbol

\* The literal the first loop of inline_literals finds for piece i (1-based).
InlinedLiteral(f, i) ==
    LET p == f.template[i] IN
    IF /\ p.kind = "Placeholder"
       /\ IsOk(p.index)
       /\ p.format_trait = "Display"
       /\ p.format_options = DefaultOptions
       /\ peel_parens_and_refs(f.arguments[p.index + 1]).kind = "Lit"
    THEN try_inline_lit(f.arguments[p.index + 1].lit)
    ELSE NoSymbol

RECURSIVE Retain(_, _)
Retain(args, remove) ==
    IF args = <<>> THEN <<>>
    ELSE (IF Head(remove) THEN <<>> ELSE <<Head(args)>>)
         \o Retain(Tail(args), Tail(remove))

\* An index map that leaves every index where it was.
ScanKept_Identity(remove, k) == k - 1

\* index_map: how many arguments before position k (1-based) are kept.
RECURSIVE ScanKept(_, _)
ScanKept(remove, k) ==
    IF k <= 1 THEN 0
    ELSE ScanKept(remove, k - 1) + (IF remove[k - 1] THEN 0 ELSE 1)

SeqToSet(s) == {s[i] : i \in 1..Len(s)}

\* Removes every argument that was inlined somewhere.
inline_literals_RemoveInlined(f) ==
    LET n == Len(f.arguments)
        template1 == [i \in 1..Len(f.template) |->
                        IF InlinedLiteral(f, i).some
                        THEN Literal(InlinedLiteral(f, i).symbol)
                        ELSE f.template[i]]
        was_inlined == [a \in 1..n |->
                          \E i \in 1..Len(f.template) :
                              InlinedLiteral(f, i).some /\ f.template[i].index = a - 1]
        inlined_anything == \E i \in 1..Len(f.template) : InlinedLiteral(f, i).some
        used == SeqToSet(ArgumentIndexes(template1))
        remove == was_inlined
    IN IF ~inlined_anything
       THEN [fmt |-> f, panicked |-> FALSE]
       ELSE IF \E index \in used : index >= n
       THEN [fmt |-> f, panicked |-> TRUE]
       ELSE [fmt |-> [template |-> for_all_argument_indexes(template1,
                                      [index \in Nat |-> ScanKept(remove, index + 1)]),
                      arguments |-> Retain(f.arguments, remove)],
             panicked |-> FALSE]

\* Returns the FormatArgs and whether an index was out of bounds (a panic).
inline_literals(f) ==
    LET n == Len(f.arguments)
        template1 == [i \in 1..Len(f.template) |->
                        IF InlinedLiteral(f, i).some
                        THEN Literal(InlinedLiteral(f, i).symbol)
                        ELSE f.template[i]]
        was_inlined == [a \in 1..n |->
                          \E i \in 1..Len(f.template) :
                              InlinedLiteral(f, i).some /\ f.template[i].index = a - 1]
        inlined_anything == \E i \in 1..Len(f.template) : InlinedLiteral(f, i).some
        used == SeqToSet(ArgumentIndexes(template1))
        remove == [a \in 1..n |-> was_inlined[a] /\ (a - 1) \notin used]
    IN IF ~inlined_anything
       THEN [fmt |-> f, panicked |-> FALSE]
       ELSE IF \E index \in used : index >= n
       THEN [fmt |-> f, panicked |-> TRUE]
       ELSE [fmt |-> [template |-> for_all_argument_indexes(template1,
                                      [index \in Nat |-> ScanKept(remove, index + 1)]),
                      arguments |-> Retain(f.arguments, remove)],
             panicked |-> FALSE]

(***************************************************************************)
(* FormatOp and FormatOpsEncoder                                           *)
(***************************************************************************)
Op(name) == [op |-> name, n |-> 0, kind |-> "", fill |-> "", placeholder |-> Literal("")]
OffsetPtr(n, kind) == [Op("OffsetPtr") EXCEPT !.n = n, !.kind = kind]
WriteStr == Op("WriteStr")
SetFlags(flags) == [Op("SetFlags") EXCEPT !.n = flags]
SetFill(fill) == [Op("SetFill") EXCEPT !.fill = fill]
SetWidth(w) == [Op("SetWidth") EXCEPT !.n = w]
SetPrecision(p) == [Op("SetPrecision") EXCEPT !.n = p]
FmtValue(placeholder) == [Op("FmtValue") EXCEPT !.placeholder = placeholder]

\* The encoder as expand_format_args constructs it.
NewEncoder(argument_count) ==
    [literal_data |-> <<>>,
     argument_data |-> <<>>,
     ref_argument_offsets |-> [a \in 1..argument_count |-> -1],
     usize_argument_offsets |-> [a \in 1..argument_count |-> -1],
     argument_ref_counts |-> [a \in 1..argument_count |-> "Zero"],
     current_literal_offset |-> 0,
     current_argument_offset |-> 0,
     current_flags |-> 0,
     current_fill |-> " ",
     current_align |-> "None",
     current_width |-> NoCount,
     current_precision |-> NoCount,
     incomplete_literal |-> <<>>,
     format_ops |-> <<>>,
     panicked |-> FALSE]

Push(e, op) == [e EXCEPT !.format_ops = Append(@, op)]

encode_literal(e, literal) ==
    IF literal # "" THEN [e EXCEPT !.incomplete_literal = Append(@, literal)] ELSE e

set_literal_offset(e, offset) ==
    IF e.current_literal_offset # offset
    THEN Push([e EXCEPT !.current_literal_offset = offset],
              OffsetPtr(offset - e.current_literal_offset, "Literal"))
    ELSE e

set_argument_offset_Absolute(e, offset) ==
    IF e.current_argument_offset # offset
    THEN Push([e EXCEPT !.current_argument_offset = offset], OffsetPtr(offset, "Argument"))
    ELSE e

set_argument_offset(e, offset) ==
    IF e.current_argument_offset # offset
    THEN Push([e EXCEPT !.current_argument_offset = offset],
              OffsetPtr(offset - e.current_argument_offset, "Argument"))
    ELSE e

\* Every literal gets a new entry of literal_data.
allocate_literal_NoIntern(e, literal) ==
    set_literal_offset([e EXCEPT !.literal_data = Append(@, literal)],
                       Len(e.literal_data))

\* literal_offsets maps every symbol of literal_data to its position.
allocate_literal(e, literal) ==
    IF \E k \in 1..Len(e.literal_data) : e.literal_data[k] = literal
    THEN set_literal_offset(e,
            (CHOOSE k \in 1..Len(e.literal_data) : e.literal_data[k] = literal) - 1)
    ELSE set_literal_offset([e EXCEPT !.literal_data = Append(@, literal)],
                            Len(e.literal_data))

add_ref(ref_count) ==
    CASE ref_count = "Zero" -> "One"
      [] OTHER -> "More"

allocate_ref_argument(e, placeholder) ==
    LET index == placeholder.index IN
    IF ~InRange(index, e.argument_ref_counts) THEN [e EXCEPT !.panicked = TRUE]
    ELSE LET e1 == [e EXCEPT !.argument_ref_counts[index + 1] = add_ref(@)]
             fresh == e1.ref_argument_offsets[index + 1] = -1
             e2 == IF fresh
                   THEN [e1 EXCEPT
                           !.argument_data = Append(@, [index |-> index, usage |-> "Ref"]),
                           !.ref_argument_offsets[index + 1] = Len(e1.argument_data)]
                   ELSE e1
         IN set_argument_offset(e2, e2.ref_argument_offsets[index + 1])

\* A width or precision argument shares the slot table entry of its use as
\* a formatted value.
allocate_usize_argument_SharedSlot(e, index) ==
    IF ~InRange(index, e.argument_ref_counts) THEN [e EXCEPT !.panicked = TRUE]
    ELSE LET e1 == [e EXCEPT !.argument_ref_counts[index + 1] = add_ref(@)]
             vacant == e1.ref_argument_offsets[index + 1] = -1
             e2 == IF vacant
                   THEN [e1 EXCEPT
                           !.argument_data = Append(@, [index |-> index, usage |-> "Usize"]),
                           !.ref_argument_offsets[index + 1] = Len(e1.argument_data)]
                   ELSE e1
         IN set_argument_offset(e2, e2.ref_argument_offsets[index + 1])

allocate_usize_argument(e, index) ==
    IF ~InRange(index, e.argument_ref_counts) THEN [e EXCEPT !.panicked = TRUE]
    ELSE LET e1 == [e EXCEPT !.argument_ref_counts[index + 1] = add_ref(@)]
             vacant == e1.usize_argument_offsets[index + 1] = -1
             e2 == IF vacant
                   THEN [e1 EXCEPT
                           !.argument_data = Append(@, [index |-> index, usage |-> "Usize"]),
                           !.usize_argument_offsets[index + 1] = Len(e1.argument_data)]
                   ELSE e1
         IN set_argument_offset(e2, e2.usize_argument_offsets[index + 1])

RECURSIVE ConcatSymbols(_)
ConcatSymbols(pieces) ==
    IF pieces = <<>> THEN "" ELSE Head(pieces) \o ConcatSymbols(Tail(pieces))

\* Only the first piece of the run is written.
flush_literal_FirstPiece(e) ==
    IF e.incomplete_literal = <<>> THEN e
    ELSE Push(allocate_literal([e EXCEPT !.incomplete_literal = <<>>],
                               Head(e.incomplete_literal)),
              WriteStr)

flush_literal(e) ==
    IF e.incomplete_literal = <<>> THEN e
    ELSE Push(allocate_literal([e EXCEPT !.incomplete_literal = <<>>],
                               ConcatSymbols(e.incomplete_literal)),
              WriteStr)

B(b) == IF b THEN 1 ELSE 0

\* The `flags` word of encode_placeholder; the bits are disjoint, so `|` is `+`.
PlaceholderFlags(o) ==
    B(o.sign = "Plus")
    + B(o.sign = "Minus") * 2
    + B(o.alternate) * 4
    + B(o.zero_pad) * 8
    + B(o.debug_hex = "Lower") * 16
    + B(o.debug_hex = "Upper") * 32

AlignOp(align) ==
    CASE align = "Left" -> Op("SetLeftAlign")
      [] align = "Right" -> Op("SetRightAlign")
      [] align = "Center" -> Op("SetCenterAlign")
      [] OTHER -> Op("ClearAlign")

\* FormatCountKey::try_from(...).unwrap() fails on an Err index.
BadCount(count) == count.kind = "Argument" /\ ~IsOk(count.n)

\* Sets the flags at every placeholder.
UpdateFlags_Always(e, o) ==
    Push([e EXCEPT !.current_flags = PlaceholderFlags(o)], SetFlags(PlaceholderFlags(o)))

UpdateFlags(e, o) ==
    IF e.current_flags # PlaceholderFlags(o)
    THEN Push([e EXCEPT !.current_flags = PlaceholderFlags(o)], SetFlags(PlaceholderFlags(o)))
    ELSE e

UpdateFill(e, o) ==
    LET fill == IF o.fill = "None" THEN " " ELSE o.fill IN
    IF e.current_fill # fill
    THEN Push([e EXCEPT !.current_fill = fill], SetFill(fill))
    ELSE e

UpdateAlign(e, o) ==
    IF e.current_align # o.alignment
    THEN Push([e EXCEPT !.current_align = o.alignment], AlignOp(o.alignment))
    ELSE e

UpdateWidth(e, o) ==
    CASE BadCount(o.width) -> [e EXCEPT !.panicked = TRUE]
      [] e.current_width = o.width -> e
      [] o.width.kind = "None" ->
            Push([e EXCEPT !.current_width = o.width], Op("ClearWidth"))
      [] o.width.kind = "Literal" ->
            Push([e EXCEPT !.current_width = o.width], SetWidth(o.width.n))
      [] OTHER ->
            LET e1 == allocate_usize_argument([e EXCEPT !.current_width = o.width],
                                              o.width.n)
            IN IF e1.panicked THEN e1 ELSE Push(e1, Op("SetDynWidth"))

UpdatePrecision(e, o) ==
    CASE BadCount(o.precision) -> [e EXCEPT !.panicked = TRUE]
      [] e.current_precision = o.precision -> e
      [] o.precision.kind = "None" ->
            Push([e EXCEPT !.current_precision = o.precision], Op("ClearPrecision"))
      [] o.precision.kind = "Literal" ->
            Push([e EXCEPT !.current_precision = o.precision], SetPrecision(o.precision.n))
      [] OTHER ->
            LET e1 == allocate_usize_argument([e EXCEPT !.current_precision = o.precision],
                                              o.precision.n)
            IN IF e1.panicked THEN e1 ELSE Push(e1, Op("SetDynPrecision"))

encode_placeholder(e, placeholder) ==
    LET o == placeholder.format_options
        e1 == UpdateAlign(UpdateFill(UpdateFlags(flush_literal(e), o), o), o)
        e2 == UpdateWidth(e1, o)
        e3 == IF e2.panicked THEN e2 ELSE UpdatePrecision(e2, o)
        e4 == IF e3.panicked THEN e3 ELSE allocate_ref_argument(e3, placeholder)
    IN IF e4.panicked THEN e4 ELSE Push(e4, FmtValue(placeholder))

finish(e) == flush_literal(e)

\* The loop of expand_format_args over the template; a panic ends it.
RECURSIVE EncodePieces(_, _)
EncodePieces(e, template) ==
    IF template = <<>> \/ e.panicked THEN e
    ELSE EncodePieces(IF Head(template).kind = "Literal"
                      THEN encode_literal(e, Head(template).symbol)
                      ELSE encode_placeholder(e, Head(template)),
                      Tail(template))

Encode(f) ==
    LET e == EncodePieces(NewEncoder(Len(f.arguments)), f.template)
    IN IF e.panicked THEN e ELSE finish(e)

(***************************************************************************)
(* expand_format_args: what the emitter generates from the encoder.        *)
(***************************************************************************)
\* (&arg0, &arg1, ...): one element per argument, in argument order.
RECURSIVE PlaceholderArguments(_, _)
PlaceholderArguments(template, arguments) ==
    IF template = <<>> THEN <<>>
    ELSE (IF Head(template).kind = "Placeholder"
          THEN <<arguments[Head(template).index + 1]>> ELSE <<>>)
         \o PlaceholderArguments(Tail(template), arguments)

args_tuple_elements_PerPlaceholder(f) == PlaceholderArguments(f.template, f.arguments)

args_tuple_elements(f) == f.arguments

FmtMethod(format_trait, fmt_debug) ==
    CASE format_trait = "Display" -> "fmt_display"
      [] format_trait = "Debug" ->
            IF fmt_debug = "None" THEN "fmt_debug_noop" ELSE "fmt_debug"
      [] format_trait = "LowerHex" -> "fmt_lower_hex"
      [] format_trait = "UpperHex" -> "fmt_upper_hex"
      [] format_trait = "LowerExp" -> "fmt_lower_exp"
      [] format_trait = "UpperExp" -> "fmt_upper_exp"
      [] format_trait = "Octal" -> "fmt_octal"
      [] format_trait = "Binary" -> "fmt_binary"
      [] OTHER -> "fmt_pointer"

\* The builder method the emitter calls for one FormatOp.
BuilderMethod(format_op, fmt_debug) ==
    CASE format_op.op = "OffsetPtr" ->
            [method |-> IF format_op.kind = "Literal" THEN "offset_literal_ptr"
                                                      ELSE "offset_argument_ptr",
             n |-> format_op.n, fill |-> ""]
      [] format_op.op = "WriteStr" -> [method |-> "write_str", n |-> 0, fill |-> ""]
      [] format_op.op = "SetFlags" -> [method |-> "set_flags", n |-> format_op.n, fill |-> ""]
      [] format_op.op = "SetFill" -> [method |-> "set_fill", n |-> 0, fill |-> format_op.fill]
      [] format_op.op = "ClearAlign" -> [method |-> "clear_align", n |-> 0, fill |-> ""]
      [] format_op.op = "SetLeftAlign" -> [method |-> "set_left_align", n |-> 0, fill |-> ""]
      [] format_op.op = "SetRightAlign" -> [method |-> "set_right_align", n |-> 0, fill |-> ""]
      [] format_op.op = "SetCenterAlign" -> [method |-> "set_center_align", n |-> 0, fill |-> ""]
      [] format_op.op = "ClearWidth" -> [method |-> "clear_width", n |-> 0, fill |-> ""]
      [] format_op.op = "SetWidth" -> [method |-> "set_width", n |-> format_op.n, fill |-> ""]
      [] format_op.op = "SetDynWidth" -> [method |-> "set_dyn_width", n |-> 0, fill |-> ""]
      [] format_op.op = "ClearPrecision" -> [method |-> "clear_precision", n |-> 0, fill |-> ""]
      [] format_op.op = "SetPrecision" ->
            [method |-> "set_precision", n |-> format_op.n, fill |-> ""]
      [] format_op.op = "SetDynPrecision" ->
            [method |-> "set_dyn_precision", n |-> 0, fill |-> ""]
      [] OTHER ->
            [method |-> FmtMethod(format_op.placeholder.format_trait, fmt_debug),
             n |-> 0, fill |-> ""]

\* FmtFnBuilder: the ops are visited last to first, each method wraps the
\* chain built so far, so the op added last runs first; fmt_debug_noop
\* returns the builder unchanged.
RECURSIVE BuildChain(_, _, _)
BuildChain(format_ops, fmt_debug, built) ==
    IF format_ops = <<>> THEN built
    ELSE LET m == BuilderMethod(format_ops[Len(format_ops)], fmt_debug)
         IN BuildChain(SubSeq(format_ops, 1, Len(format_ops) - 1), fmt_debug,
                       IF m.method = "fmt_debug_noop" THEN built ELSE <<m>> \o built)

IsFmtMethod(method) ==
    method \in {"fmt_display", "fmt_debug", "fmt_lower_hex", "fmt_upper_hex",
                "fmt_lower_exp", "fmt_upper_exp", "fmt_octal", "fmt_binary",
                "fmt_pointer"}

CanFail(method) == method = "write_str" \/ IsFmtMethod(method)

\* build() needs F: FmtOp; End is no FmtOp and only WriteStr<End> and
\* Fmt*<T, End> end a chain.
Buildable(ops) == ops # <<>> /\ CanFail(ops[Len(ops)].method)

\* The runtime argument slots following fmt_fn and compile_time_data.
argument_data_elements(e, f) ==
    [k \in 1..Len(e.argument_data) |->
        LET d == e.argument_data[k]
            argument == f.arguments[d.index + 1]
        IN IF d.usage = "Ref"
           THEN [from |-> "from_ref", id |-> argument.id, usize |-> 0]
           ELSE [from |-> "from_usize", id |-> argument.id, usize |-> argument.val]]

(***************************************************************************)
(* rt.rs: State and the FmtOp chain.                                       *)
(***************************************************************************)
\* State::new: FormattingOptions::new() and both cursors at the start.
State_new ==
    [flags |-> 0, fill |-> " ", align |-> "None", width |-> -1, precision |-> -1,
     literal_ptr |-> 0, argument_ptr |-> 0]

NoEvent == [kind |-> "None", text |-> "", id |-> 0, method |-> "", options |-> <<>>]
StrEvent(text) == [NoEvent EXCEPT !.kind = "Str", !.text = text]
FmtEvent(id, method, st) ==
    [NoEvent EXCEPT !.kind = "Fmt", !.id = id, !.method = method,
        !.options = [flags |-> st.flags, fill |-> st.fill, align |-> st.align,
                     width |-> st.width, precision |-> st.precision]]

Step(st, event, ub) == [state |-> st, event |-> event, ub |-> ub]

\* set_width also clears the precision.
ApplyMethod_WidthResetsPrecision(st, m, literals, slots) ==
    LET lit_ok == InRange(st.literal_ptr, literals)
        arg_ok == InRange(st.argument_ptr, slots)
        slot == slots[st.argument_ptr + 1]
    IN CASE m.method = "offset_literal_ptr" ->
                Step([st EXCEPT !.literal_ptr = @ + m.n], NoEvent, FALSE)
         [] m.method = "offset_argument_ptr" ->
                Step([st EXCEPT !.argument_ptr = @ + m.n], NoEvent, FALSE)
         [] m.method = "write_str" ->
                IF lit_ok THEN Step(st, StrEvent(literals[st.literal_ptr + 1]), FALSE)
                ELSE Step(st, NoEvent, TRUE)
         [] m.method = "set_flags" -> Step([st EXCEPT !.flags = m.n], NoEvent, FALSE)
         [] m.method = "set_fill" -> Step([st EXCEPT !.fill = m.fill], NoEvent, FALSE)
         [] m.method = "clear_align" -> Step([st EXCEPT !.align = "None"], NoEvent, FALSE)
         [] m.method = "set_left_align" -> Step([st EXCEPT !.align = "Left"], NoEvent, FALSE)
         [] m.method = "set_right_align" -> Step([st EXCEPT !.align = "Right"], NoEvent, FALSE)
         [] m.method = "set_center_align" ->
                Step([st EXCEPT !.align = "Center"], NoEvent, FALSE)
         [] m.method = "clear_width" -> Step([st EXCEPT !.width = -1], NoEvent, FALSE)
         [] m.method = "set_width" ->
                Step([st EXCEPT !.width = m.n, !.precision = -1], NoEvent, FALSE)
         [] m.method = "set_dyn_width" ->
                IF arg_ok /\ slot.from = "from_usize"
                THEN Step([st EXCEPT !.width = slot.usize], NoEvent, FALSE)
                ELSE Step(st, NoEvent, TRUE)
         [] m.method = "clear_precision" -> Step([st EXCEPT !.precision = -1], NoEvent, FALSE)
         [] m.method = "set_precision" -> Step([st EXCEPT !.precision = m.n], NoEvent, FALSE)
         [] m.method = "set_dyn_precision" ->
                IF arg_ok /\ slot.from = "from_usize"
                THEN Step([st EXCEPT !.precision = slot.usize], NoEvent, FALSE)
                ELSE Step(st, NoEvent, TRUE)
         [] OTHER ->
                IF arg_ok /\ slot.from = "from_ref"
                THEN Step(st, FmtEvent(slot.id, m.method, st), FALSE)
                ELSE Step(st, NoEvent, TRUE)

\* One State method, as called by the FmtOp of the same name.  ub: the
\* safety requirement of the method does not hold.
ApplyMethod(st, m, literals, slots) ==
    LET lit_ok == InRange(st.literal_ptr, literals)
        arg_ok == InRange(st.argument_ptr, slots)
        slot == slots[st.argument_ptr + 1]
    IN CASE m.method = "offset_literal_ptr" ->
                Step([st EXCEPT !.literal_ptr = @ + m.n], NoEvent, FALSE)
         [] m.method = "offset_argument_ptr" ->
                Step([st EXCEPT !.argument_ptr = @ + m.n], NoEvent, FALSE)
         [] m.method = "write_str" ->
                IF lit_ok THEN Step(st, StrEvent(literals[st.literal_ptr + 1]), FALSE)
                ELSE Step(st, NoEvent, TRUE)
         [] m.method = "set_flags" -> Step([st EXCEPT !.flags = m.n], NoEvent, FALSE)
         [] m.method = "set_fill" -> Step([st EXCEPT !.fill = m.fill], NoEvent, FALSE)
         [] m.method = "clear_align" -> Step([st EXCEPT !.align = "None"], NoEvent, FALSE)
         [] m.method = "set_left_align" -> Step([st EXCEPT !.align = "Left"], NoEvent, FALSE)
         [] m.method = "set_right_align" -> Step([st EXCEPT !.align = "Right"], NoEvent, FALSE)
         [] m.method = "set_center_align" ->
                Step([st EXCEPT !.align = "Center"], NoEvent, FALSE)
         [] m.method = "clear_width" -> Step([st EXCEPT !.width = -1], NoEvent, FALSE)
         [] m.method = "set_width" -> Step([st EXCEPT !.width = m.n], NoEvent, FALSE)
         [] m.method = "set_dyn_width" ->
                IF arg_ok /\ slot.from = "from_usize"
                THEN Step([st EXCEPT !.width = slot.usize], NoEvent, FALSE)
                ELSE Step(st, NoEvent, TRUE)
         [] m.method = "clear_precision" -> Step([st EXCEPT !.precision = -1], NoEvent, FALSE)
         [] m.method = "set_precision" -> Step([st EXCEPT !.precision = m.n], NoEvent, FALSE)
         [] m.method = "set_dyn_precision" ->
                IF arg_ok /\ slot.from = "from_usize"
                THEN Step([st EXCEPT !.precision = slot.usize], NoEvent, FALSE)
                ELSE Step(st, NoEvent, TRUE)
         [] OTHER ->
                IF arg_ok /\ slot.from = "from_ref"
                THEN Step(st, FmtEvent(slot.id, m.method, st), FALSE)
                ELSE Step(st, NoEvent, TRUE)

(***************************************************************************)
(* Argument evaluation: a nested format_args!() that is still an argument  *)
(* is lowered by lower_expr in its turn, and evaluates its own arguments   *)
(* when it is evaluated.                                                   *)
(***************************************************************************)
Lowered(f, o) ==
    IF o.flatten_format_args THEN inline_literals(flatten_format_args(f)).fmt ELSE f

RECURSIVE EvalOrder(_, _)
RECURSIVE EvalOrderAll(_, _)
EvalOrder(expr, o) ==
    IF expr.kind = "FormatArgs"
    THEN EvalOrderAll(Lowered(expr.fmt, o).arguments, o) \o <<expr.id>>
    ELSE <<expr.id>>

EvalOrderAll(exprs, o) ==
    IF exprs = <<>> THEN <<>>
    ELSE EvalOrder(Head(exprs), o) \o EvalOrderAll(Tail(exprs), o)

(***************************************************************************)
(* Actions of a call site.                                                 *)
(***************************************************************************)
\* No expansion has been emitted for the call site.
NoConstructor == "none"

\* expand_format_args with no argument left: the literal table holds the
\* whole text, and allow_const selects the constructor.
static_str_constructor_Const(allow_const) == "from_static_str"

static_str_constructor(allow_const) ==
    IF allow_const THEN "from_static_str" ELSE "from_static_str_with_lifetime"

\* The byte length of the non-empty literal pieces. The u64 checked_add
\* cannot fail on a template shorter than 2^64 bytes.
RECURSIVE literal_length(_)
literal_length(template) ==
    IF template = <<>> THEN 0
    ELSE LET piece == Head(template)
         IN (IF piece.kind = "Literal" /\ piece.symbol # "" THEN Len(piece.symbol)
             ELSE 0) + literal_length(Tail(template))

starts_with_literal(format_ops) ==
    format_ops # <<>> /\ Head(format_ops).op = "WriteStr"

\* The capacity literal: nothing for a short template that starts with an
\* argument, else twice the literal length if that fits isize of the target.
capacity_of_Saturating(length, starts, target_pointer_width) ==
    IF ~starts /\ length < 16 THEN 0
    ELSE IF U128Le(U128(length * 2), MaxOfBits(target_pointer_width - 1))
    THEN length * 2
    ELSE 2 ^ (target_pointer_width - 1) - 1

capacity_of(length, starts, target_pointer_width) ==
    IF ~starts /\ length < 16 THEN 0
    ELSE LET isize_max == MaxOfBits(target_pointer_width - 1)
         IN IF U128Le(U128(length * 2), isize_max) THEN length * 2 ELSE 0

\* lower_format_args: flatten, inline, encode, emit.
lower_format_args ==
    /\ stage = "source"
    /\ \E allow_const \in {src.arguments = <<>>} :
       \E fl \in {IF opts.flatten_format_args THEN flatten_format_args(src) ELSE src} :
       \E il \in {IF opts.flatten_format_args THEN inline_literals(fl)
                  ELSE [fmt |-> src, panicked |-> FALSE]} :
       \E e \in {IF il.panicked THEN NewEncoder(0) ELSE Encode(il.fmt)} :
       \E ops \in {BuildChain(e.format_ops, opts.fmt_debug, <<>>)} :
       \E length \in {literal_length(il.fmt.template)} :
          /\ flat' = fl
          /\ fmt' = il.fmt
          /\ enc' = e
          /\ chain' = ops
          /\ args_tuple' = args_tuple_elements(il.fmt)
          /\ stage' = CASE il.panicked \/ e.panicked -> "ice"
                        [] il.fmt.arguments = <<>> ->
                              IF Len(e.literal_data) <= 1 THEN "static" ELSE "ice"
                        [] ~Buildable(ops) -> "rejected"
                        [] OTHER -> "eval"
          /\ constructor' =
                CASE il.panicked \/ e.panicked -> NoConstructor
                  [] il.fmt.arguments = <<>> ->
                        IF Len(e.literal_data) <= 1
                        THEN static_str_constructor(allow_const)
                        ELSE NoConstructor
                  [] OTHER -> "new"
          /\ estimated_capacity' =
                IF il.panicked \/ e.panicked \/ il.fmt.arguments = <<>> THEN 0
                ELSE capacity_of(length, starts_with_literal(e.format_ops),
                                 opts.pointer_size)
    /\ UNCHANGED <<opts, src, evalIdx, evaluated, state, ip, sink, result, rcVars, lifeVars>>

\* The generated match scrutinee evaluates the tuple elements left to right.
EvalArg ==
    /\ stage = "eval"
    /\ evalIdx < Len(args_tuple)
    /\ evaluated' = evaluated \o EvalOrder(args_tuple[evalIdx + 1], opts)
    /\ evalIdx' = evalIdx + 1
    /\ stage' = IF evalIdx + 1 = Len(args_tuple) THEN "exec" ELSE "eval"
    /\ UNCHANGED <<opts, src, flat, fmt, enc, chain, constructor,
                   estimated_capacity, args_tuple, state, ip, sink, result,
                   rcVars, lifeVars>>

\* One FmtOp of the chain: the State method, `?` on write_str and fmt_*,
\* then the rest of the chain.
ExecOp_IgnoreFailure ==
    /\ stage = "exec"
    /\ LET m == chain[ip + 1]
           r == ApplyMethod(state, m, enc.literal_data, argument_data_elements(enc, fmt))
           last == ip + 1 = Len(chain)
       IN \E ok \in BOOLEAN :
             /\ ok \/ CanFail(m.method)
             /\ state' = r.state
             /\ ip' = ip + 1
             /\ sink' = IF ok /\ r.event.kind # "None" THEN Append(sink, r.event) ELSE sink
             /\ result' = IF ~ok \/ result = "Err" THEN "Err"
                          ELSE IF last THEN "Ok" ELSE result
             /\ stage' = IF last THEN "done" ELSE "exec"
    /\ UNCHANGED <<opts, src, flat, fmt, enc, chain, constructor,
                   estimated_capacity, args_tuple, evalIdx, evaluated,
                   rcVars, lifeVars>>

ExecOp ==
    /\ stage = "exec"
    /\ LET m == chain[ip + 1]
           r == ApplyMethod(state, m, enc.literal_data, argument_data_elements(enc, fmt))
           last == ip + 1 = Len(chain)
       IN IF r.ub
          THEN /\ stage' = "ub"
               /\ result' \in {"Ok", "Err"}
               /\ UNCHANGED <<state, ip, sink>>
          ELSE \E ok \in BOOLEAN :
                 /\ ok \/ CanFail(m.method)
                 /\ IF ok
                    THEN /\ state' = r.state
                         /\ ip' = ip + 1
                         /\ sink' = IF r.event.kind # "None" THEN Append(sink, r.event)
                                                             ELSE sink
                         /\ result' = IF last THEN "Ok" ELSE result
                         /\ stage' = IF last THEN "done" ELSE "exec"
                    ELSE /\ result' = "Err"
                         /\ stage' = "done"
                         /\ UNCHANGED <<state, ip, sink>>
    /\ UNCHANGED <<opts, src, flat, fmt, enc, chain, constructor,
                   estimated_capacity, args_tuple, evalIdx, evaluated,
                   rcVars, lifeVars>>

NextFmt ==
    \/ lower_format_args
    \/ EvalArg
    \/ ExecOp

\* A call site about to be lowered.
InitFmt(inputs, options) ==
    /\ opts \in options
    /\ src \in inputs
    /\ flat = NoFormatArgs /\ fmt = NoFormatArgs
    /\ stage = "source"
    /\ enc = NewEncoder(0) /\ chain = <<>> /\ args_tuple = <<>>
    /\ constructor = NoConstructor /\ estimated_capacity = 0
    /\ evalIdx = 0 /\ evaluated = <<>>
    /\ state = State_new /\ ip = 0 /\ sink = <<>> /\ result = "Pending"

(***************************************************************************)
(* Call sites explored.                                                    *)
(***************************************************************************)
MaxPieces == 3

\* Every placeholder of a call site gets its own span.
WithSpans(template, base) ==
    [i \in 1..Len(template) |->
        IF template[i].kind = "Placeholder"
        THEN [template[i] EXCEPT !.span = base + i]
        ELSE template[i]]

Templates(alphabet, n) ==
    {WithSpans(t, 0) : t \in UNION {[1..k -> alphabet] : k \in 0..n}}

Display(index) == Placeholder(index, "Display", DefaultOptions)

\* ---- flat call sites with every kind of format option ----
\* format_args!(.., x, n, m)
FlatArguments == <<ExprPath(1, 3), ExprPath(2, 5), ExprPath(3, 7)>>

FlatPieces ==
    { Literal("a"), Literal("b"),
      Display(0),
      \* {0:+#08.2}
      Placeholder(0, "Display",
          [DefaultOptions EXCEPT !.sign = "Plus", !.alternate = TRUE, !.zero_pad = TRUE,
                                 !.width = CountLiteral(8), !.precision = CountLiteral(2)]),
      \* {0:*>1$}
      Placeholder(0, "Display",
          [DefaultOptions EXCEPT !.fill = "*", !.alignment = "Right",
                                 !.width = CountArgument(1)]),
      \* {1:.2$}
      Placeholder(1, "Display", [DefaultOptions EXCEPT !.precision = CountArgument(2)]),
      \* {0:1$.1$}
      Placeholder(0, "Display",
          [DefaultOptions EXCEPT !.width = CountArgument(1),
                                 !.precision = CountArgument(1)]),
      \* {2:<x?}
      Placeholder(2, "Debug",
          [DefaultOptions EXCEPT !.alignment = "Left", !.debug_hex = "Lower"]) }

\* Longer call sites: a literal met again, an empty literal inside a run.
LongTemplates ==
    { WithSpans(<<Literal("a"), Display(0), Literal("b"), Display(1), Literal("a")>>, 0),
      WithSpans(<<Literal("a"), Literal(""), Literal("b"), Display(2), Literal("ab"),
                  Placeholder(2, "Display",
                      [DefaultOptions EXCEPT !.width = CountArgument(2)])>>, 0) }

FlatInputs ==
    {[template |-> t, arguments |-> FlatArguments] :
        t \in Templates(FlatPieces, MaxPieces) \cup LongTemplates}

FlatOptions ==
    {[flatten_format_args |-> TRUE, fmt_debug |-> d, pointer_size |-> 64] :
        d \in {"Full", "None"}}

\* ---- call sites with nested format_args!() and literal arguments ----
\* format_args!(.., x, format_args!("b{}!", y), z)
NestedOne ==
    <<ExprPath(1, 3),
      ExprFormatArgs(2, "None",
          WithSpans(<<Literal("b"), Display(0), Literal("!")>>, 100), <<ExprPath(3, 4)>>),
      ExprPath(4, 5)>>

\* format_args!(.., x, &format_args!("b"))
NestedNoArgs ==
    <<ExprPath(1, 3),
      ExprFormatArgs(2, "AddrOf", <<Literal("b")>>, <<>>)>>

\* format_args!(.., (format_args!("{:1$}{}", u, v)), x)
NestedTwo ==
    <<ExprFormatArgs(1, "Paren",
          WithSpans(<<Placeholder(0, "Display",
                          [DefaultOptions EXCEPT !.width = CountArgument(1)]),
                      Display(1)>>, 100),
          <<ExprPath(2, 4), ExprPath(3, 6)>>),
      ExprPath(4, 5)>>

\* format_args!(.., format_args!("c{}", format_args!("d{}", w)), x)
NestedDeep ==
    <<ExprFormatArgs(1, "None",
          WithSpans(<<Literal("c"), Display(0)>>, 100),
          <<ExprFormatArgs(2, "None",
                WithSpans(<<Literal("d"), Display(0)>>, 200), <<ExprPath(3, 4)>>)>>),
      ExprPath(4, 5)>>

\* format_args!(.., "s", format_args!("{}{}", 7, 300u8))
NestedLiterals ==
    <<ExprLit(1, LitStr("s")),
      ExprFormatArgs(2, "None",
          WithSpans(<<Display(0), Display(1)>>, 100),
          <<ExprLit(3, LitInt(U128(7), "Unsuffixed")), ExprLit(4, LitInt(U128(300), "U8"))>>)>>

\* format_args!(.., x, y)
NoNesting == <<ExprPath(1, 3), ExprPath(2, 5)>>

NestedArgumentLists ==
    {NestedOne, NestedNoArgs, NestedTwo, NestedDeep, NestedLiterals, NoNesting}

NestedPieces(arguments) ==
    {Literal("a")}
    \cup {Display(index) : index \in 0..(Len(arguments) - 1)}
    \cup { Placeholder(1, "Debug", DefaultOptions),
           Placeholder(1, "LowerHex", DefaultOptions),
           \* {0:1$}
           Placeholder(0, "Display", [DefaultOptions EXCEPT !.width = CountArgument(1)]) }

NestedInputs ==
    UNION {{[template |-> t, arguments |-> arguments] :
                t \in Templates(NestedPieces(arguments), MaxPieces)} :
           arguments \in NestedArgumentLists}

NestedOptions ==
    {[flatten_format_args |-> b, fmt_debug |-> "Full", pointer_size |-> 64] :
        b \in BOOLEAN}

\* The format variables of a call site that is never lowered.
FmtUnused ==
    /\ opts = [flatten_format_args |-> TRUE, fmt_debug |-> "Full", pointer_size |-> 64]
    /\ src = NoFormatArgs /\ flat = NoFormatArgs /\ fmt = NoFormatArgs
    /\ stage = "unused"
    /\ enc = NewEncoder(0) /\ chain = <<>> /\ args_tuple = <<>>
    /\ constructor = NoConstructor /\ estimated_capacity = 0
    /\ evalIdx = 0 /\ evaluated = <<>>
    /\ state = State_new /\ ip = 0 /\ sink = <<>> /\ result = "Pending"

\* The value type of the allocation the counting specification follows: a
\* 64-bit integer on a 64-bit target.
DefaultValueLayout == [size |-> 8, align |-> 8, pointer_width |-> 64]

(***************************************************************************)
(* RawRc::new: RefCounts::new(1), the value written, one strong handle.    *)
(***************************************************************************)
InitRc ==
    /\ strong = 1
    /\ weak = 1
    /\ rcs = 1
    /\ wks = 0
    /\ pc = [t \in Threads |-> "idle"]
    /\ payload = "init"
    /\ destroyed = 0
    /\ deallocs = 0
    /\ allocated = TRUE
    /\ uaf = FALSE
    /\ lastOp = "RawRc::new"
    /\ ctor = "built"
    /\ value_layout = DefaultValueLayout
    /\ \E rc_layout \in {try_from_value_layout(DefaultValueLayout)} :
          block = init_rc_allocation(rc_layout.align, rc_layout)
    /\ new_block = NoAllocation
    /\ self_ptr = "old"
    /\ dangling = 0
    /\ moved_out = 0
    /\ released = NoRelease

NextRc ==
    \E t \in Threads :
        \/ RawRc_clone(t)
        \/ RawRc_downgrade(t)
        \/ RawRc_drop(t)
        \/ assume_init_drop(t)
        \/ RawWeak_clone(t)
        \/ RawWeak_upgrade(t)
        \/ RawWeak_drop(t)
        \/ drop_unchecked(t)
        \/ deallocate_value_ptr(t)

InitSpecRc == InitRc /\ FmtUnused

SpecRc == InitSpecRc /\ [][NextRc]_vars

(***************************************************************************)
(* The life of an allocation: constructed in one of the ways of raw_rc.rs, *)
(* shared between threads, and made unique again by RawRc::make_mut.       *)
(***************************************************************************)
\* Nothing has been allocated.
(***************************************************************************)
(*            raw_rc.rs: dangling RawWeak handles                          *)
(*                                                                         *)
(* A handle made by new_dangling holds the address usize::MAX and belongs  *)
(* to no block; the operations below are the ones of RawWeak, called on    *)
(* such a handle.                                                          *)
(***************************************************************************)
\* usize::MAX, as the wrapping integer -1.
NonZeroUsize_MAX == -1

\* The null address is taken for the sentinel.
is_dangling_Null(value_ptr) == value_ptr = 0

is_dangling(value_ptr) == value_ptr = NonZeroUsize_MAX

\* RawWeak::new_dangling / new_dangling_in.
RawWeak_new_dangling(t) ==
    /\ Idle(t) /\ dangling < MaxHandles
    /\ dangling' = dangling + 1
    /\ lastOp' = "RawWeak::new_dangling"
    /\ UNCHANGED <<strong, weak, rcs, wks, pc, payload, destroyed, deallocs, allocated, uaf,
                   ctor, value_layout, block, new_block, self_ptr, moved_out, released, fmtVars>>

\* RawWeak::clone: the weak count is incremented unless the handle dangles.
RawWeak_clone_dangling(t) ==
    /\ Idle(t) /\ dangling >= 1 /\ dangling < MaxHandles
    /\ \E ptr \in {NonZeroUsize_MAX} :
          /\ weak' = IF is_dangling(ptr) THEN weak ELSE increment_ref_count(weak)
          /\ uaf' = IF is_dangling(ptr) THEN uaf ELSE Touch
    /\ dangling' = dangling + 1
    /\ lastOp' = "RawWeak::clone(dangling)"
    /\ UNCHANGED <<strong, rcs, wks, pc, payload, destroyed, deallocs, allocated,
                   ctor, value_layout, block, new_block, self_ptr, moved_out, released, fmtVars>>

\* RawWeak::drop: drop_unchecked runs unless the handle dangles.
RawWeak_drop_dangling(t) ==
    /\ Idle(t) /\ dangling >= 1
    /\ \E ptr \in {NonZeroUsize_MAX} :
          /\ pc' = IF is_dangling(ptr) THEN pc ELSE [pc EXCEPT ![t] = "drop_unchecked"]
    /\ dangling' = dangling - 1
    /\ lastOp' = "RawWeak::drop(dangling)"
    /\ UNCHANGED <<strong, weak, rcs, wks, payload, destroyed, deallocs, allocated, uaf,
                   ctor, value_layout, block, new_block, self_ptr, moved_out, released, fmtVars>>

\* RawWeak::upgrade: R::upgrade is reached only if the handle does not dangle.
RawWeak_upgrade_dangling(t) ==
    /\ Idle(t) /\ dangling >= 1 /\ Room
    /\ \E ptr \in {NonZeroUsize_MAX} :
          /\ strong' = IF is_dangling(ptr) THEN strong ELSE RcOps_upgrade(strong)
          /\ uaf' = IF is_dangling(ptr) THEN uaf ELSE Touch
    /\ rcs' = IF strong' # strong THEN rcs + 1 ELSE rcs
    /\ lastOp' = IF strong' # strong THEN "RawWeak::upgrade(dangling)=Some"
                                     ELSE "RawWeak::upgrade(dangling)=None"
    /\ UNCHANGED <<weak, wks, pc, payload, destroyed, deallocs, allocated, lifeVars, fmtVars>>

\* RawWeak::ref_counts, strong_count, weak_count: None for a dangling handle.
RawWeak_counts_dangling(t) ==
    /\ Idle(t) /\ dangling >= 1
    /\ \E ptr \in {NonZeroUsize_MAX} :
       \E accessor \in {"ref_counts", "strong_count", "weak_count"} :
          /\ uaf' = IF is_dangling(ptr) THEN uaf ELSE Touch
          /\ lastOp' = "RawWeak::" \o accessor
                        \o (IF is_dangling(ptr) THEN "(dangling)=None" ELSE "(dangling)=Some")
    /\ UNCHANGED <<strong, weak, rcs, wks, pc, payload, destroyed, deallocs, allocated,
                   lifeVars, fmtVars>>

\* One allocation and its handles, beside dangling handles.
NextDangling ==
    \E t \in Threads :
        \/ RawRc_clone(t)
        \/ RawRc_downgrade(t)
        \/ RawRc_drop(t)
        \/ assume_init_drop(t)
        \/ RawWeak_clone(t)
        \/ RawWeak_upgrade(t)
        \/ RawWeak_drop(t)
        \/ drop_unchecked(t)
        \/ deallocate_value_ptr(t)
        \/ RawWeak_new_dangling(t)
        \/ RawWeak_clone_dangling(t)
        \/ RawWeak_drop_dangling(t)
        \/ RawWeak_upgrade_dangling(t)
        \/ RawWeak_counts_dangling(t)

SpecDangling == InitSpecRc /\ [][NextDangling]_vars

(***************************************************************************)
(*     raw_rc.rs: RawRc::get_mut, RawRc::try_unwrap, RawRc::into_inner     *)
(***************************************************************************)
\* Unique as soon as no other strong handle exists.
RcOps_is_unique_StrongOnly(ref_counts) == ref_counts.strong = 1

\* RcOps::is_unique: both counts are 1.
RcOps_is_unique(ref_counts) == ref_counts.strong = 1 /\ ref_counts.weak = 1

\* Locks whatever the count is.
RcOps_lock_strong_count_Any(strong_count) == 0

\* RcOps::lock_strong_count: the count after the call; it is decremented
\* iff it was 1, and the call returns whether it was.
RcOps_lock_strong_count(strong_count) ==
    IF strong_count = 1 THEN strong_count - 1 ELSE strong_count

\* RawRc::get_mut: Some(&mut T) iff R::is_unique.
RawRc_get_mut(t) ==
    /\ Idle(t) /\ rcs >= 1
    /\ \E ref_counts \in {[strong |-> strong, weak |-> weak]} :
          lastOp' = IF RcOps_is_unique(ref_counts) THEN "RawRc::get_mut=Some"
                                                   ELSE "RawRc::get_mut=None"
    /\ uaf' = Touch
    /\ UNCHANGED <<strong, weak, rcs, wks, pc, payload, destroyed, deallocs, allocated,
                   fmtVars, lifeVars>>

\* RawRc::try_unwrap: R::lock_strong_count decides; Ok goes on to
\* assume_init_into_inner, Err gives the handle back.
RawRc_try_unwrap(t) ==
    /\ Idle(t) /\ rcs >= 1
    /\ strong' = RcOps_lock_strong_count(strong)
    /\ \E is_last_strong_ref \in {strong' # strong} :
          /\ rcs' = IF is_last_strong_ref THEN rcs - 1 ELSE rcs
          /\ pc' = IF is_last_strong_ref
                   THEN [pc EXCEPT ![t] = "assume_init_into_inner"]
                   ELSE pc
          /\ lastOp' = IF is_last_strong_ref THEN "RawRc::try_unwrap=Ok"
                                             ELSE "RawRc::try_unwrap=Err"
    /\ uaf' = Touch
    /\ UNCHANGED <<weak, wks, payload, destroyed, deallocs, allocated, fmtVars, lifeVars>>

\* Every call takes the payload.
RawRc_into_inner_AlwaysLast(t) ==
    /\ Idle(t) /\ rcs >= 1
    /\ rcs' = rcs - 1
    /\ strong' = decrement_ref_count(strong)
    /\ pc' = [pc EXCEPT ![t] = "assume_init_into_inner"]
    /\ lastOp' = "RawRc::into_inner=Some"
    /\ uaf' = Touch
    /\ UNCHANGED <<weak, wks, payload, destroyed, deallocs, allocated, fmtVars, lifeVars>>

\* RawRc::into_inner: decrement_strong_ref_count; the last strong reference
\* goes on to assume_init_into_inner, the others return None.
RawRc_into_inner(t) ==
    /\ Idle(t) /\ rcs >= 1
    /\ rcs' = rcs - 1
    /\ strong' = decrement_ref_count(strong)
    /\ \E is_last_strong_ref \in {strong' = 0} :
          /\ pc' = IF is_last_strong_ref
                   THEN [pc EXCEPT ![t] = "assume_init_into_inner"]
                   ELSE pc
          /\ lastOp' = IF is_last_strong_ref THEN "RawRc::into_inner=Some"
                                             ELSE "RawRc::into_inner=None"
    /\ uaf' = Touch
    /\ UNCHANGED <<weak, wks, payload, destroyed, deallocs, allocated, fmtVars, lifeVars>>

\* RawWeak::assume_init_into_inner: the value is read out of the block,
\* then drop_unchecked releases the weak reference the strong handles owned.
assume_init_into_inner(t) ==
    /\ pc[t] = "assume_init_into_inner"
    /\ payload' = "moved"
    /\ moved_out' = moved_out + 1
    /\ pc' = [pc EXCEPT ![t] = "drop_unchecked"]
    /\ lastOp' = "assume_init_into_inner"
    /\ uaf' = Touch
    /\ UNCHANGED <<strong, weak, rcs, wks, destroyed, deallocs, allocated, fmtVars, ctor,
                   value_layout, block, new_block, self_ptr, dangling, released>>

\* Handles that are shared, inspected and consumed by value.
NextUnwrap ==
    \E t \in Threads :
        \/ RawRc_clone(t)
        \/ RawRc_downgrade(t)
        \/ RawWeak_clone(t)
        \/ RawWeak_upgrade(t)
        \/ RawWeak_drop(t)
        \/ drop_unchecked(t)
        \/ deallocate_value_ptr(t)
        \/ RawRc_get_mut(t)
        \/ RawRc_try_unwrap(t)
        \/ RawRc_into_inner(t)
        \/ assume_init_into_inner(t)

SpecUnwrap == InitSpecRc /\ [][NextUnwrap]_vars

InitLife ==
    /\ strong = 0
    /\ weak = 0
    /\ rcs = 0
    /\ wks = 0
    /\ pc = [t \in Threads |-> "idle"]
    /\ payload = "none"
    /\ destroyed = 0
    /\ deallocs = 0
    /\ allocated = FALSE
    /\ uaf = FALSE
    /\ lastOp = "none"
    /\ ctor = "start"
    /\ block = NoBlock
    /\ new_block = NoAllocation
    /\ self_ptr = "old"
    /\ dangling = 0
    /\ moved_out = 0
    /\ released = NoRelease

NextLife ==
    \E t \in Threads :
        \/ RawRc_try_new(t)
        \/ RawRc_new(t)
        \/ RawUniqueRc_new(t)
        \/ RawRc_new_cyclic(t)
        \/ RawUniqueRc_downgrade(t)
        \/ from_weak_with_value(t)
        \/ data_fn_panic(t)
        \/ RawUniqueRc_into_rc(t)
        \/ RawUniqueRc_drop(t)
        \/ RawRc_clone(t)
        \/ RawRc_downgrade(t)
        \/ RawRc_drop(t)
        \/ assume_init_drop(t)
        \/ RawWeak_clone(t)
        \/ RawWeak_upgrade(t)
        \/ RawWeak_drop(t)
        \/ drop_unchecked(t)
        \/ deallocate_value_ptr(t)
        \/ make_mut(t)
        \/ make_mut_move(t)
        \/ make_mut_clone(t)
        \/ make_mut_rc_drop(t)
        \/ make_mut_assume_init_drop(t)
        \/ make_mut_drop_unchecked(t)
        \/ make_mut_deallocate(t)

InitSpecLife == InitLife /\ value_layout = DefaultValueLayout /\ FmtUnused

SpecLife == InitSpecLife /\ [][NextLife]_vars

\* No operation of another thread is under way.
Alone(t) == \A u \in Threads \ {t} : Idle(u)

\* The life of an allocation whose operations run one at a time.  For
\* make_mut to destroy the old value or deallocate the old block, another
\* handle has to be dropped while make_mut runs, so these two steps have no
\* place here.
NextAlone ==
    \E t \in Threads :
        \/ Alone(t) /\ RawRc_try_new(t)
        \/ Alone(t) /\ RawRc_new(t)
        \/ Alone(t) /\ RawUniqueRc_new(t)
        \/ Alone(t) /\ RawRc_new_cyclic(t)
        \/ Alone(t) /\ RawUniqueRc_downgrade(t)
        \/ Alone(t) /\ from_weak_with_value(t)
        \/ Alone(t) /\ data_fn_panic(t)
        \/ Alone(t) /\ RawUniqueRc_into_rc(t)
        \/ Alone(t) /\ RawUniqueRc_drop(t)
        \/ Alone(t) /\ RawRc_clone(t)
        \/ Alone(t) /\ RawRc_downgrade(t)
        \/ Alone(t) /\ RawRc_drop(t)
        \/ Alone(t) /\ assume_init_drop(t)
        \/ Alone(t) /\ RawWeak_clone(t)
        \/ Alone(t) /\ RawWeak_upgrade(t)
        \/ Alone(t) /\ RawWeak_drop(t)
        \/ Alone(t) /\ drop_unchecked(t)
        \/ Alone(t) /\ deallocate_value_ptr(t)
        \/ Alone(t) /\ make_mut(t)
        \/ Alone(t) /\ make_mut_move(t)
        \/ Alone(t) /\ make_mut_clone(t)
        \/ Alone(t) /\ make_mut_rc_drop(t)
        \/ Alone(t) /\ make_mut_drop_unchecked(t)

SpecAlone == InitSpecLife /\ [][NextAlone]_vars

(***************************************************************************)
(* raw_rc.rs: constructors that run a closure on the new block.            *)
(***************************************************************************)
\* RawRc::new_with: allocate_with_in has allocated the block, written the
\* counts and made its Guard; f is entered.
RawRc_new_with(t) ==
    /\ Idle(t) /\ ctor = "start"
    /\ try_from_value_layout_is_ok(value_layout)
    /\ \E allocation \in Allocations(try_from_value_layout(value_layout)) :
          IF allocation.ok
          THEN /\ Allocated(allocation, 1, "uninit")
               /\ ctor' = "new_with"
               /\ lastOp' = "allocate_with_in"
          ELSE /\ ctor' = "handle_alloc_error"
               /\ lastOp' = "handle_alloc_error"
               /\ UNCHANGED <<strong, weak, allocated, payload, block>>
    /\ UNCHANGED <<rcs, wks, pc, destroyed, deallocs, uaf, value_layout, new_block, self_ptr,
                   dangling, moved_out, released, fmtVars>>

\* f has written the value: the Guard is forgotten, from_raw_parts makes
\* the handle.
new_with_return(t) ==
    /\ Idle(t) /\ ctor = "new_with"
    /\ payload' = "init"
    /\ rcs' = 1
    /\ ctor' = "built"
    /\ lastOp' = "RawRc::new_with"
    /\ UNCHANGED <<strong, weak, wks, pc, destroyed, deallocs, allocated, uaf,
                   value_layout, block, new_block, self_ptr, dangling, moved_out, released, fmtVars>>

\* f panicked: the Guard is dropped and calls deallocate_value_ptr.
new_with_panic(t) ==
    /\ Idle(t) /\ ctor = "new_with"
    /\ \E rc_layout \in {try_from_value_layout(value_layout)} :
          released' = deallocate_arguments(block.value_ptr, rc_layout)
    /\ allocated' = FALSE
    /\ deallocs' = deallocs + 1
    /\ ctor' = "new_with_panicked"
    /\ lastOp' = "f panicked"
    /\ UNCHANGED <<strong, weak, rcs, wks, pc, payload, destroyed, uaf,
                   value_layout, block, new_block, self_ptr, dangling, moved_out, fmtVars>>

\* An allocation built by new_with or new_cyclic, and its handles.
NextClosure ==
    \E t \in Threads :
        \/ RawRc_new_with(t)
        \/ new_with_return(t)
        \/ new_with_panic(t)
        \/ RawRc_new_cyclic(t)
        \/ RawUniqueRc_downgrade(t)
        \/ from_weak_with_value(t)
        \/ data_fn_panic(t)
        \/ RawUniqueRc_into_rc(t)
        \/ RawRc_clone(t)
        \/ RawRc_drop(t)
        \/ assume_init_drop(t)
        \/ RawWeak_clone(t)
        \/ RawWeak_upgrade(t)
        \/ RawWeak_drop(t)
        \/ drop_unchecked(t)
        \/ deallocate_value_ptr(t)

SpecClosure == InitSpecLife /\ [][NextClosure]_vars

(***************************************************************************)
(* The layout of the block, over value sizes, value alignments and pointer *)
(* widths: every constructor allocates once.                               *)
(***************************************************************************)
PointerWidths == {16, 32, 64}

ValueAligns == {1, 2, 4, 8, 16, 32, 64}

ValueSizes == {0, 1, 3, 4, 8, 16, 24, 64, 128}

\* Layouts of values: the size of a value is a multiple of its alignment.
ValueLayouts ==
    {layout \in
        {[size |-> size, align |-> align, pointer_width |-> pointer_width] :
            size \in ValueSizes, align \in ValueAligns, pointer_width \in PointerWidths} :
        layout.size % layout.align = 0}

NextLayout ==
    \E t \in Threads :
        \/ RawRc_try_new(t)
        \/ RawRc_new(t)
        \/ RawUniqueRc_new(t)
        \/ RawRc_new_cyclic(t)

InitSpecLayout == InitLife /\ value_layout \in ValueLayouts /\ FmtUnused

SpecLayout == InitSpecLayout /\ [][NextLayout]_vars

(***************************************************************************)
(* raw_rc.rs: blocks of every layout, from allocation to deallocation.     *)
(***************************************************************************)
\* Sizes near isize::MAX of a 16 bit target.
LargeValueSizes == {32640, 32704, 32760, 32764}

\* Layouts of large values on a 16 bit target; a Layout has
\* size <= isize::MAX - (align - 1).
LargeValueLayouts ==
    {layout \in
        {[size |-> size, align |-> align, pointer_width |-> 16] :
            size \in LargeValueSizes, align \in ValueAligns} :
        /\ layout.size % layout.align = 0
        /\ layout.size <= isize_MAX(16) - (layout.align - 1)}

NextRcLayout ==
    \E t \in Threads :
        \/ RawRc_try_new(t)
        \/ RawRc_new(t)
        \/ RawRc_new_with(t)
        \/ new_with_return(t)
        \/ new_with_panic(t)
        \/ RawRc_drop(t)
        \/ assume_init_drop(t)
        \/ drop_unchecked(t)
        \/ deallocate_value_ptr(t)

InitSpecRcLayout ==
    InitLife /\ value_layout \in ValueLayouts \cup LargeValueLayouts /\ FmtUnused

SpecRcLayout == InitSpecRcLayout /\ [][NextRcLayout]_vars

InitSpecFmt == InitFmt(FlatInputs, FlatOptions) /\ InitRc

SpecFmt == InitSpecFmt /\ [][NextFmt]_vars

InitSpecLower == InitFmt(NestedInputs, NestedOptions) /\ InitRc

SpecLower == InitSpecLower /\ [][NextFmt]_vars

Quiescent == rcs = 0 /\ wks = 0 /\ \A t \in Threads : Idle(t)

Destroying == \E t \in Threads : pc[t] = "assume_init_drop"

Entering(t, at) == pc[t] # at /\ pc'[t] = at

(***************************************************************************)
(* C3: under any sequence of RawRc::clone / drop / downgrade and           *)
(* RawWeak::clone / drop / upgrade the strong count never goes below zero, *)
(* and the weak count is at least 1 in every state where strong > 0.       *)
(***************************************************************************)
Thm_C3_CountsInRange ==
    /\ strong >= 0
    /\ strong > 0 => weak >= 1

Wit_C3_DropLeavesStrong ==
    /\ lastOp = "RawRc::drop"
    /\ strong > 0
    /\ weak >= 2

(***************************************************************************)
(* C4: the payload is destroyed exactly once, by the RawRc::drop that      *)
(* moves strong from 1 to 0 and by nothing else, and never while           *)
(* strong > 0.                                                             *)
(***************************************************************************)
C4_State ==
    /\ destroyed <= 1
    /\ (payload = "dropped") <=> (destroyed = 1)
    /\ destroyed >= 1 => strong = 0
    /\ Destroying => strong = 0 /\ destroyed = 0
    /\ Quiescent => destroyed = 1

C4_Step ==
    /\ \A t \in Threads :
          Entering(t, "assume_init_drop") =>
              strong = 1 /\ strong' = 0 /\ rcs' = rcs - 1
    /\ destroyed' # destroyed =>
          /\ destroyed' = destroyed + 1
          /\ strong = 0
          /\ \E t \in Threads :
                pc[t] = "assume_init_drop" /\ pc'[t] = "drop_unchecked"

Thm_C4_PayloadDestroyedOnce == [](C4_State) /\ [][C4_Step]_vars

Wit_C4_DestroyedWithWeakLeft ==
    /\ lastOp = "drop_in_place"
    /\ destroyed = 1
    /\ wks >= 1

(***************************************************************************)
(* C5: the block is deallocated exactly once, by the decrement that moves  *)
(* weak from 1 to 0, when strong is already 0; never while a strong        *)
(* handle or a non-dangling weak handle exists, and the counts are never   *)
(* touched afterwards.                                                     *)
(***************************************************************************)
C5_State ==
    /\ deallocs <= 1
    /\ allocated <=> (deallocs = 0)
    /\ deallocs >= 1 => rcs = 0 /\ wks = 0 /\ strong = 0 /\ weak = 0
    /\ \A t \in Threads :
          pc[t] = "deallocate_value_ptr" =>
              rcs = 0 /\ wks = 0 /\ strong = 0 /\ weak = 0
    /\ ~uaf
    /\ Quiescent => deallocs = 1

C5_Step ==
    \A t \in Threads :
        Entering(t, "deallocate_value_ptr") =>
            weak = 1 /\ weak' = 0 /\ strong = 0 /\ pc[t] = "drop_unchecked"

Thm_C5_BlockDeallocatedOnce == [](C5_State) /\ [][C5_Step]_vars

Wit_C5_Deallocated ==
    /\ lastOp = "deallocate"
    /\ deallocs = 1
    /\ destroyed = 1

(***************************************************************************)
(* C6: with the atomic policy, in every interleaving of RawRc::drop and    *)
(* RawWeak::upgrade, an upgrade that takes effect once strong is 0         *)
(* returns None, and no upgrade returns a strong handle to a payload that  *)
(* has been or is being destroyed.                                         *)
(***************************************************************************)
C6_State ==
    rcs >= 1 => payload = "init" /\ ~Destroying

C6_Step ==
    /\ (strong = 0 /\ lastOp' \in {"RawWeak::upgrade=Some", "RawWeak::upgrade=None"})
          => lastOp' = "RawWeak::upgrade=None" /\ rcs' = rcs /\ strong' = 0
    /\ lastOp' = "RawWeak::upgrade=Some"
          => payload = "init" /\ ~Destroying /\ strong >= 1
    /\ strong = 0 => strong' = 0

Thm_C6_UpgradeVsDrop == [](C6_State) /\ [][C6_Step]_vars

Wit_C6_UpgradeRacesDestroy ==
    /\ lastOp = "RawWeak::upgrade=None"
    /\ Destroying
    /\ strong = 0

(***************************************************************************)
(* What a formatting pass is observed to do, and the piece by piece        *)
(* reading of a template it is compared with.                              *)
(***************************************************************************)
FlagNames ==
    <<"SignPlus", "SignMinus", "Alternate", "SignAwareZeroPad", "DebugLowerHex",
      "DebugUpperHex">>

\* The flags a Formatter sees in the word: bit k is the k-th Flag of rt.rs.
FlagSet(flags) ==
    {FlagNames[k] : k \in {j \in 1..Len(FlagNames) : (flags \div (2 ^ (j - 1))) % 2 = 1}}

\* The trait behind each State::fmt_* method.
MethodTrait(method) ==
    CASE method = "fmt_display" -> "Display"
      [] method = "fmt_debug" -> "Debug"
      [] method = "fmt_lower_hex" -> "LowerHex"
      [] method = "fmt_upper_hex" -> "UpperHex"
      [] method = "fmt_lower_exp" -> "LowerExp"
      [] method = "fmt_upper_exp" -> "UpperExp"
      [] method = "fmt_octal" -> "Octal"
      [] method = "fmt_binary" -> "Binary"
      [] OTHER -> "Pointer"

\* The whole chain on one State when no write fails.
RECURSIVE RunChain(_, _, _, _)
RunChain(st, ops, literals, slots) ==
    IF ops = <<>> THEN <<>>
    ELSE LET r == ApplyMethod(st, Head(ops), literals, slots)
         IN IF r.ub THEN <<[NoEvent EXCEPT !.kind = "UB"]>>
            ELSE (IF r.event.kind = "None" THEN <<>> ELSE <<r.event>>)
                 \o RunChain(r.state, Tail(ops), literals, slots)

Call(id, format_trait, flags, fill, align, width, precision) ==
    [kind |-> "Fmt", text |-> "", id |-> id, format_trait |-> format_trait,
     flags |-> flags, fill |-> fill, align |-> align, width |-> width,
     precision |-> precision]

Text(text) ==
    [kind |-> "Str", text |-> text, id |-> 0, format_trait |-> "", flags |-> {},
     fill |-> "", align |-> "", width |-> -1, precision |-> -1]

\* Sink effects: the text written between format calls, and each format call.
RECURSIVE Effects(_)
Effects(events) ==
    IF events = <<>> THEN <<>>
    ELSE LET ev == Head(events)
             rest == Effects(Tail(events))
         IN CASE ev.kind = "Fmt" ->
                    <<Call(ev.id, MethodTrait(ev.method), FlagSet(ev.options.flags),
                           ev.options.fill, ev.options.align, ev.options.width,
                           ev.options.precision)>> \o rest
              [] ev.kind = "Str" /\ ev.text = "" -> rest
              [] ev.kind = "Str" /\ rest # <<>> /\ Head(rest).kind = "Str" ->
                    <<Text(ev.text \o Head(rest).text)>> \o Tail(rest)
              [] ev.kind = "Str" -> <<Text(ev.text)>> \o rest
              [] OTHER -> <<ev>> \o rest

CountValue(count, arguments) ==
    CASE count.kind = "None" -> -1
      [] count.kind = "Literal" -> count.n
      [] OTHER -> arguments[count.n + 1].val

OptionFlags(o) ==
    {n \in SeqToSet(FlagNames) :
        \/ n = "SignPlus" /\ o.sign = "Plus"
        \/ n = "SignMinus" /\ o.sign = "Minus"
        \/ n = "Alternate" /\ o.alternate
        \/ n = "SignAwareZeroPad" /\ o.zero_pad
        \/ n = "DebugLowerHex" /\ o.debug_hex = "Lower"
        \/ n = "DebugUpperHex" /\ o.debug_hex = "Upper"}

\* The pieces formatted one by one.
RECURSIVE PieceByPiece(_, _)
PieceByPiece(template, arguments) ==
    IF template = <<>> THEN <<>>
    ELSE LET p == Head(template)
             o == p.format_options
             rest == PieceByPiece(Tail(template), arguments)
         IN IF p.kind = "Literal"
            THEN (IF p.symbol = "" THEN rest
                  ELSE IF rest # <<>> /\ Head(rest).kind = "Str"
                  THEN <<Text(p.symbol \o Head(rest).text)>> \o Tail(rest)
                  ELSE <<Text(p.symbol)>> \o rest)
            ELSE <<Call(arguments[p.index + 1].id, p.format_trait, OptionFlags(o),
                        IF o.fill = "None" THEN " " ELSE o.fill, o.alignment,
                        CountValue(o.width, arguments),
                        CountValue(o.precision, arguments))>> \o rest

EncodedChain == [k \in 1..Len(enc.format_ops) |-> BuilderMethod(enc.format_ops[k], "Full")]

Emitted == stage \in {"eval", "exec", "done", "rejected"}

(***************************************************************************)
(* C1: for every flat template with valid argument indexes, running the    *)
(* op stream of FormatOpsEncoder on a State that starts with both cursors  *)
(* at 0 and default options has the sink effects of formatting the pieces  *)
(* one by one: the same literal text between placeholders and, per         *)
(* placeholder, one format call on the same argument with the same trait,  *)
(* flags, fill, alignment, width and precision.                            *)
(***************************************************************************)
Thm_C1_OpStreamRefinesTemplate ==
    Emitted =>
        /\ Effects(RunChain(State_new, EncodedChain, enc.literal_data,
                            argument_data_elements(enc, fmt)))
              = PieceByPiece(fmt.template, fmt.arguments)
        /\ (stage = "done" /\ result = "Ok" /\ opts.fmt_debug = "Full")
              => Effects(sink) = PieceByPiece(fmt.template, fmt.arguments)

Wit_C1_DynamicWidthFormatted ==
    /\ stage = "done" /\ result = "Ok"
    /\ Len(sink) >= 3
    /\ state.width = 5 /\ state.fill = "*"
    /\ state.argument_ptr > 0
    /\ \E i \in 1..Len(sink) : sink[i].kind = "Str"

(***************************************************************************)
(* C7: when a write-literal or format-value op fails, no later op runs     *)
(* (no further sink write, option change or cursor move), the pass         *)
(* returns that first failure and what the sink already received stays;    *)
(* the pass succeeds only if every write-literal and format-value op of    *)
(* the chain succeeded.                                                    *)
(***************************************************************************)
C7_State ==
    /\ result = "Err" => stage = "done"
    /\ result = "Ok" =>
          /\ stage = "done" /\ ip = Len(chain)
          /\ Len(sink) = Cardinality({k \in 1..Len(chain) : CanFail(chain[k].method)})
    /\ stage = "done" => result # "Pending"

C7_Step ==
    /\ result = "Err" => UNCHANGED <<sink, state, ip, result>>
    /\ (result = "Pending" /\ result' = "Err") =>
          /\ CanFail(chain[ip + 1].method)
          /\ UNCHANGED <<sink, state, ip>>
    /\ Len(sink') >= Len(sink) /\ SubSeq(sink', 1, Len(sink)) = sink

Thm_C7_FirstFailureEndsPass == [](C7_State) /\ [][C7_Step]_vars

Wit_C7_FailureMidChain ==
    /\ stage = "done" /\ result = "Err"
    /\ Len(sink) >= 1
    /\ ip + 1 < Len(chain)

(***************************************************************************)
(* What the source of a call site says: its argument expressions in        *)
(* source order, and which expression every placeholder refers to.         *)
(***************************************************************************)
\* Source order: an expression after the expressions nested in it.
RECURSIVE SourceOrder(_)
SourceOrder(exprs) ==
    IF exprs = <<>> THEN <<>>
    ELSE SourceOrder(Head(exprs).fmt.arguments) \o <<Head(exprs).id>>
         \o SourceOrder(Tail(exprs))

RECURSIVE PathIds(_)
PathIds(exprs) ==
    IF exprs = <<>> THEN {}
    ELSE (IF Head(exprs).kind = "Path" THEN {Head(exprs).id} ELSE {})
         \cup PathIds(Head(exprs).fmt.arguments) \cup PathIds(Tail(exprs))

RECURSIVE IsSubsequence(_, _)
IsSubsequence(a, b) ==
    IF a = <<>> THEN TRUE
    ELSE IF b = <<>> THEN FALSE
    ELSE IF Head(a) = Head(b) THEN IsSubsequence(Tail(a), Tail(b))
    ELSE IsSubsequence(a, Tail(b))

Ids(exprs) == [k \in 1..Len(exprs) |-> exprs[k].id]

\* The expression an index designates; 0 when it designates none.
Designated(index, arguments) ==
    IF InRange(index, arguments) THEN arguments[index + 1].id ELSE 0

\* <<span of the placeholder, role, expression>> of every reference.
References(template, arguments) ==
    UNION {LET p == template[i]
               o == p.format_options
           IN IF p.kind # "Placeholder" THEN {}
              ELSE {<<p.span, "value", Designated(p.index, arguments)>>}
                   \cup (IF o.width.kind = "Argument"
                         THEN {<<p.span, "width", Designated(o.width.n, arguments)>>}
                         ELSE {})
                   \cup (IF o.precision.kind = "Argument"
                         THEN {<<p.span, "precision", Designated(o.precision.n, arguments)>>}
                         ELSE {})
           : i \in 1..Len(template)}

RECURSIVE DeepReferences(_)
RECURSIVE DeepReferencesAll(_)
DeepReferences(f) == References(f.template, f.arguments) \cup DeepReferencesAll(f.arguments)

DeepReferencesAll(exprs) ==
    IF exprs = <<>> THEN {}
    ELSE DeepReferences(Head(exprs).fmt) \cup DeepReferencesAll(Tail(exprs))

\* Spans of the placeholders that refer to the argument at index, as their
\* value, width or precision.
Referrers(template, index) ==
    {template[i].span : i \in
        {j \in 1..Len(template) :
            /\ template[j].kind = "Placeholder"
            /\ \/ template[j].index = index
               \/ template[j].format_options.width = CountArgument(index)
               \/ template[j].format_options.precision = CountArgument(index)}}

ValueReferrers(template, index) ==
    {template[i].span : i \in
        {j \in 1..Len(template) :
            template[j].kind = "Placeholder" /\ template[j].index = index}}

PlaceholderSpans(template) ==
    {template[i].span : i \in {j \in 1..Len(template) : template[j].kind = "Placeholder"}}

NoNestedPlaceholder(f) ==
    \A i \in 1..Len(f.template) :
        f.template[i].kind = "Placeholder" =>
            peel_parens_and_refs(f.arguments[f.template[i].index + 1]).kind # "FormatArgs"

Flattened == stage # "source" /\ opts.flatten_format_args

(***************************************************************************)
(* C2: the lowered code evaluates every argument expression that survives  *)
(* flattening and inlining exactly once, all of them before any formatting *)
(* op runs, in the relative order of the source, whether an argument is    *)
(* referenced by no, one or several placeholders and whether or not the    *)
(* flatten and inline steps applied.                                       *)
(***************************************************************************)
C2_State ==
    /\ stage \in {"exec", "done"} =>
          /\ evalIdx = Len(args_tuple)
          /\ IsSubsequence(evaluated, SourceOrder(src.arguments))
          /\ PathIds(src.arguments) \subseteq SeqToSet(evaluated)
          /\ SeqToSet(Ids(fmt.arguments)) \subseteq SeqToSet(evaluated)
    /\ stage = "eval" => ip = 0 /\ sink = <<>> /\ result = "Pending"

C2_Step ==
    (ip' # ip \/ sink' # sink) =>
        /\ evaluated' = evaluated
        /\ evalIdx = Len(args_tuple)

Thm_C2_ArgumentsEvaluatedOnceInOrder == [](C2_State) /\ [][C2_Step]_vars

Wit_C2_SplicedSharedAndUnused ==
    /\ stage = "done" /\ result = "Ok"
    /\ opts.flatten_format_args /\ Ids(flat.arguments) # Ids(src.arguments)
    /\ Len(evaluated) >= 3
    /\ \E a \in 0..(Len(fmt.arguments) - 1) : ValueReferrers(fmt.template, a) = {}
    /\ \E a \in 0..(Len(fmt.arguments) - 1) :
          Cardinality(ValueReferrers(fmt.template, a)) >= 2

(***************************************************************************)
(* C8: a splice of the nested template at argument k leaves the arguments  *)
(* outer[0..k] ++ inner ++ outer[k+1..], puts the inner pieces in the      *)
(* place of the placeholder, and every argument index in the result        *)
(* (value, width or precision, of outer and inner pieces) designates the   *)
(* argument expression it designated before.                               *)
(***************************************************************************)
Claim_C8_SplicePreservesReferences ==
    Flattened =>
        /\ IsSubsequence(Ids(flat.arguments), SourceOrder(src.arguments))
        /\ References(flat.template, flat.arguments) \subseteq DeepReferences(src)

(***************************************************************************)
(* C9: flattening is idempotent: a template with no placeholder on a       *)
(* nested format template comes back unchanged, and flattening the result  *)
(* of a flattening changes nothing.                                        *)
(***************************************************************************)
Thm_C9_FlattenIdempotent ==
    Flattened =>
        /\ flatten_format_args(flat) = flat
        /\ NoNestedPlaceholder(src) => flat = src

Wit_C9_NestedTwiceFlattened ==
    /\ Flattened
    /\ flat # src
    /\ NoNestedPlaceholder(flat)
    /\ \E a \in 1..Len(src.arguments) :
          \E b \in 1..Len(src.arguments[a].fmt.arguments) :
              src.arguments[a].fmt.arguments[b].kind = "FormatArgs"
    /\ \A a \in 1..Len(flat.arguments) : flat.arguments[a].kind # "FormatArgs"

(***************************************************************************)
(* C10: flatten never splices a nested-template argument that more than    *)
(* one placeholder refers to: the argument stays one runtime argument and  *)
(* every placeholder that refers to it is kept.                            *)
(***************************************************************************)
Claim_C10_SharedNestedArgumentKept ==
    Flattened =>
        \A a \in 1..Len(src.arguments) :
            (/\ src.arguments[a].kind = "FormatArgs"
             /\ Cardinality(Referrers(src.template, a - 1)) > 1)
            => /\ \E b \in 1..Len(flat.arguments) : flat.arguments[b] = src.arguments[a]
               /\ Referrers(src.template, a - 1) \subseteq PlaceholderSpans(flat.template)

(***************************************************************************)
(* C11: flatten splices a nested-template argument only when the           *)
(* placeholder on it has default format options: a Display or Debug        *)
(* placeholder with a fill, alignment, flag, width or precision whose      *)
(* argument is a nested format template is left unflattened.               *)
(***************************************************************************)
Claim_C11_NonDefaultOptionsNotSpliced ==
    Flattened =>
        \A i \in 1..Len(src.template) :
            LET p == src.template[i] IN
            (/\ p.kind = "Placeholder"
             /\ p.format_trait \in {"Display", "Debug"}
             /\ p.format_options # DefaultOptions
             /\ peel_parens_and_refs(src.arguments[p.index + 1]).kind = "FormatArgs")
            => /\ \E b \in 1..Len(flat.arguments) : flat.arguments[b] = src.arguments[p.index + 1]
               /\ p.span \in PlaceholderSpans(flat.template)

(***************************************************************************)
(* Call sites with literal arguments.                                      *)
(***************************************************************************)
\* n + 1 on u128, for n below u128::MAX.
U128Succ(n) ==
    LET k == CHOOSE k \in 1..LimbCount :
                 n[k] # LimbBase - 1 /\ \A j \in 1..(k - 1) : n[j] = LimbBase - 1
    IN [j \in 1..LimbCount |-> IF j < k THEN 0 ELSE IF j = k THEN n[j] + 1 ELSE n[j]]

\* The format macro rejects a call site with an argument nothing refers to.
AllArgumentsUsed(template, arguments) ==
    SeqToSet(ArgumentIndexes(template)) = 0..(Len(arguments) - 1)

\* format_args!(.., "World", 123, x)
HelloArguments ==
    <<ExprLit(1, LitStr("World")), ExprLit(2, LitInt(U128(123), "Unsuffixed")),
      ExprPath(3, 5)>>

\* format_args!(.., "", 7)
InlinableArguments ==
    <<ExprLit(1, LitStr("")), ExprLit(2, LitInt(U128(7), "Unsuffixed"))>>

\* format_args!(.., true, &300u8)
KeptLiteralArguments ==
    <<ExprLit(1, LitBool(TRUE)),
      [ExprLit(2, LitInt(U128(300), "U8")) EXCEPT !.wrap = "AddrOf"]>>

\* format_args!(.., x, 5)
PathThenLiteral == <<ExprPath(1, 3), ExprLit(2, LitInt(U128(5), "Usize"))>>

\* format_args!(.., (5), x)
LiteralThenPath ==
    <<[ExprLit(1, LitInt(U128(5), "Unsuffixed")) EXCEPT !.wrap = "Paren"],
      ExprPath(2, 3)>>

\* format_args!(.., format_args!("b"))
OnlyNested == <<ExprFormatArgs(1, "None", <<Literal("b")>>, <<>>)>>

InlineArgumentLists ==
    {<<>>, HelloArguments, InlinableArguments, KeptLiteralArguments,
     PathThenLiteral, LiteralThenPath, OnlyNested}

InlinePieces(arguments) ==
    {Literal("a")}
    \cup {Display(index) : index \in 0..(Len(arguments) - 1)}
    \cup (IF Len(arguments) = 0 THEN {} ELSE {Placeholder(0, "Debug", DefaultOptions)})
    \cup (IF Len(arguments) < 2 THEN {}
          ELSE { \* {0:1$}
                 Placeholder(0, "Display",
                     [DefaultOptions EXCEPT !.width = CountArgument(1)]),
                 \* {1:.0$}
                 Placeholder(1, "Display",
                     [DefaultOptions EXCEPT !.precision = CountArgument(0)]) })

\* "Hello, {}! {} {}", "{}{2}a{1}{0}" and "{}{2:1$.1$}" on HelloArguments
InlineLongTemplates ==
    { WithSpans(<<Literal("Hello, "), Display(0), Literal("! "), Display(1),
                  Literal(" "), Display(2)>>, 0),
      WithSpans(<<Display(0), Display(2), Literal("a"), Display(1), Display(0)>>, 0),
      \* "{}{2:1$.1$}"
      WithSpans(<<Display(0),
                  Placeholder(2, "Display",
                      [DefaultOptions EXCEPT !.width = CountArgument(1),
                                             !.precision = CountArgument(1)])>>, 0) }

InlineOptions == [flatten_format_args |-> TRUE, fmt_debug |-> "Full", pointer_size |-> 64]

InlineCallSites ==
    UNION {{[src |-> [template |-> t, arguments |-> arguments], opts |-> InlineOptions] :
                t \in {u \in Templates(InlinePieces(arguments), MaxPieces) :
                          AllArgumentsUsed(u, arguments)}} :
           arguments \in InlineArgumentLists}
    \cup {[src |-> [template |-> t, arguments |-> HelloArguments], opts |-> InlineOptions] :
             t \in InlineLongTemplates}

\* ---- one integer literal, at and next to the largest value of every type ----
BoundBits == {7, 8, 15, 16, 31, 32, 63, 64, 127, 128}

IntValues ==
    {U128(0)} \cup {MaxOfBits(bits) : bits \in BoundBits}
    \cup {U128Succ(MaxOfBits(bits)) : bits \in BoundBits \ {128}}

LitIntTypes ==
    {"Unsuffixed", "Isize", "I8", "I16", "I32", "I64", "I128",
     "Usize", "U8", "U16", "U32", "U64", "U128"}

PointerSizes == {16, 32, 64}

IntCallSites ==
    {[src |-> [template |-> WithSpans(<<Display(0)>>, 0),
               arguments |-> <<ExprLit(1, LitInt(n, ty))>>],
      opts |-> [flatten_format_args |-> TRUE, fmt_debug |-> "Full", pointer_size |-> w]] :
        n \in IntValues, ty \in LitIntTypes, w \in PointerSizes}

\* ---- literal text around the capacity thresholds ----
RECURSIVE Repeat(_, _)
Repeat(symbol, count) ==
    IF count = 0 THEN ""
    ELSE IF count % 2 = 1 THEN symbol \o Repeat(symbol, count - 1)
    ELSE LET half == Repeat(symbol, count \div 2) IN half \o half

\* 15 and 16 bytes, and the lengths whose double is i16::MAX - 1 and i16::MAX + 1.
CapacityTexts ==
    {"0123456789abcde", "0123456789abcdef", Repeat("a", 16383), Repeat("a", 16384)}

\* format_args!("{}<text>", x), format_args!("<text>{}", x),
\* format_args!("{}{}", x, "<text>"), format_args!("{1}{0}", x, "<text>"),
\* format_args!("{}01234567{}<7 or 8 bytes>", x)
CapacitySources ==
    UNION {{[template |-> WithSpans(<<Display(0), Literal(t)>>, 0),
             arguments |-> <<ExprPath(1, 3)>>],
            [template |-> WithSpans(<<Literal(t), Display(0)>>, 0),
             arguments |-> <<ExprPath(1, 3)>>],
            [template |-> WithSpans(<<Display(0), Display(1)>>, 0),
             arguments |-> <<ExprPath(1, 3), ExprLit(2, LitStr(t))>>],
            [template |-> WithSpans(<<Display(1), Display(0)>>, 0),
             arguments |-> <<ExprPath(1, 3), ExprLit(2, LitStr(t))>>]} :
           t \in CapacityTexts}
    \cup {[template |-> WithSpans(<<Display(0), Literal("01234567"), Display(0),
                                     Literal(t)>>, 0),
            arguments |-> <<ExprPath(1, 3)>>] : t \in {"89abcde", "89abcdef"}}

CapacityCallSites ==
    {[src |-> f,
      opts |-> [flatten_format_args |-> TRUE, fmt_debug |-> "Full", pointer_size |-> w]] :
        f \in CapacitySources, w \in PointerSizes}

InitSpecInline ==
    /\ \E c \in InlineCallSites \cup IntCallSites \cup CapacityCallSites :
            InitFmt({c.src}, {c.opts})
    /\ InitRc

SpecInline == InitSpecInline /\ [][NextFmt]_vars

(***************************************************************************)
(* What the source of a call site with literal arguments says.             *)
(***************************************************************************)
Inlined == stage # "source" /\ opts.flatten_format_args

\* The bits of the largest value of an integer literal's type.
MaxBits(ty) ==
    CASE ty = "Unsuffixed" -> 31
      [] ty = "I8" -> 7     [] ty = "U8" -> 8
      [] ty = "I16" -> 15   [] ty = "U16" -> 16
      [] ty = "I32" -> 31   [] ty = "U32" -> 32
      [] ty = "I64" -> 63   [] ty = "U64" -> 64
      [] ty = "I128" -> 127 [] ty = "U128" -> 128
      [] ty = "Isize" -> opts.pointer_size - 1
      [] ty = "Usize" -> opts.pointer_size

\* n < 2^bits, read off the limbs.
BelowPow2(n, bits) ==
    \A k \in 1..LimbCount :
        /\ 16 * (k - 1) >= bits => n[k] = 0
        /\ (16 * (k - 1) < bits /\ bits < 16 * k) => n[k] < 2 ^ (bits - 16 * (k - 1))

FitsType(lit) == lit.kind = "Int" /\ BelowPow2(lit.n, MaxBits(lit.ty))

\* The text a Display placeholder with default options writes for a literal.
Stringify(lit) ==
    CASE lit.kind = "Str" -> lit.symbol
      [] lit.kind = "Int" -> to_string(lit.n)
      [] lit.kind = "Bool" -> "true"
      [] OTHER -> ""

RECURSIVE NaiveConcat(_, _)
NaiveConcat(template, arguments) ==
    IF template = <<>> THEN ""
    ELSE (IF Head(template).kind = "Literal" THEN Head(template).symbol
          ELSE Stringify(arguments[Head(template).index + 1].lit))
         \o NaiveConcat(Tail(template), arguments)

Symbols(template) == [i \in 1..Len(template) |-> template[i].symbol]

AllDisplayDefault(template) ==
    \A i \in 1..Len(template) :
        template[i].kind = "Placeholder" =>
            template[i].format_trait = "Display" /\ template[i].format_options = DefaultOptions

OnlyLiteralPieces(template) ==
    \A i \in 1..Len(template) : template[i].kind = "Literal"

C12_RoundTrip ==
    /\ fmt.arguments = <<>>
    /\ OnlyLiteralPieces(fmt.template)
    /\ ConcatSymbols(Symbols(fmt.template)) = NaiveConcat(flat.template, flat.arguments)

(***************************************************************************)
(* C12 as stated: when every placeholder is Display with default options   *)
(* and every argument is a literal, inline_literals leaves no argument and *)
(* only literal pieces, whose concatenation is the concatenation of the    *)
(* literal pieces and stringified arguments in template order.             *)
(***************************************************************************)
Claim_C12_AllLiteralsInlined ==
    (/\ Inlined
     /\ AllDisplayDefault(flat.template)
     /\ \A a \in 1..Len(flat.arguments) : flat.arguments[a].kind = "Lit")
    => C12_RoundTrip

(***************************************************************************)
(* C12 amended: the same, when every argument is a string literal or an    *)
(* integer literal not above the largest value of its type.                *)
(***************************************************************************)
Thm_C12_InlinableLiteralsInlined ==
    (/\ Inlined
     /\ AllDisplayDefault(flat.template)
     /\ \A a \in 1..Len(flat.arguments) :
           /\ flat.arguments[a].kind = "Lit"
           /\ flat.arguments[a].lit.kind = "Str" \/ FitsType(flat.arguments[a].lit))
    => C12_RoundTrip

Wit_C12_StrAndIntInlined ==
    /\ Inlined
    /\ AllDisplayDefault(flat.template)
    /\ Len(flat.arguments) = 2
    /\ flat.arguments[1].lit.kind = "Str" /\ FitsType(flat.arguments[2].lit)
    /\ fmt.arguments = <<>>
    /\ Len(fmt.template) = 3
    /\ ConcatSymbols(Symbols(fmt.template)) = "7a"

(***************************************************************************)
(* C13: inline_literals removes an argument exactly when a placeholder on  *)
(* it was replaced by literal text and no placeholder that is left refers  *)
(* to it as its value, its width or its precision; an argument inlined at  *)
(* one placeholder and still referred to by another is kept.               *)
(***************************************************************************)
\* The placeholders on argument a (0-based) that became literal text.
Replaced(a) == ValueReferrers(flat.template, a) \ PlaceholderSpans(fmt.template)

\* The placeholders left that refer to argument a (0-based) of the input.
StillReferring(a) == Referrers(flat.template, a) \cap PlaceholderSpans(fmt.template)

RemovedByInlining(a) == flat.arguments[a + 1].id \notin SeqToSet(Ids(fmt.arguments))

Thm_C13_RemovedIffInlinedAndUnreferenced ==
    Inlined =>
        \A a \in 0..(Len(flat.arguments) - 1) :
            RemovedByInlining(a) <=> (Replaced(a) # {} /\ StillReferring(a) = {})

Wit_C13_InlinedButStillReferenced ==
    /\ Inlined
    /\ \E a \in 0..(Len(flat.arguments) - 1) :
          /\ Replaced(a) # {} /\ StillReferring(a) # {} /\ ~RemovedByInlining(a)
          /\ \E s \in StillReferring(a) : s \notin ValueReferrers(flat.template, a)

(***************************************************************************)
(* C14: after inline_literals the arguments left keep their relative       *)
(* order, every argument index of the template (value, width, precision)   *)
(* lies in 0..n-1 for the new argument count n, and every reference        *)
(* designates the argument expression it designated before.                *)
(***************************************************************************)
Thm_C14_InlineKeepsOrderAndReferences ==
    Inlined =>
        /\ IsSubsequence(Ids(fmt.arguments), Ids(flat.arguments))
        /\ \A index \in SeqToSet(ArgumentIndexes(fmt.template)) :
              InRange(index, fmt.arguments)
        /\ References(fmt.template, fmt.arguments)
              \subseteq References(flat.template, flat.arguments)

\* A placeholder left after an argument before its own was removed: its
\* value, width and precision indexes all moved.
Wit_C14_IndexesShifted ==
    /\ Inlined
    /\ Len(fmt.arguments) < Len(flat.arguments)
    /\ \E i \in 1..Len(fmt.template) : \E j \in 1..Len(flat.template) :
          /\ fmt.template[i].kind = "Placeholder"
          /\ fmt.template[i].span = flat.template[j].span
          /\ fmt.template[i].index < flat.template[j].index
          /\ flat.template[j].format_options.width.kind = "Argument"
          /\ fmt.template[i].format_options.width.n
                < flat.template[j].format_options.width.n
          /\ flat.template[j].format_options.precision.kind = "Argument"
          /\ fmt.template[i].format_options.precision.n
                < flat.template[j].format_options.precision.n

(***************************************************************************)
(* C15: an integer literal is inlined exactly when it is at most the       *)
(* largest value of its type: i32::MAX when unsuffixed, the type's largest *)
(* value when suffixed, that of the target's pointer width for isize and   *)
(* usize. A literal above it is neither inlined nor rejected: placeholder  *)
(* and argument stay as they are, a runtime argument.                      *)
(***************************************************************************)
\* The Display placeholders with default options on an integer literal.
IntPlaceholders ==
    {i \in 1..Len(flat.template) :
        /\ flat.template[i].kind = "Placeholder"
        /\ flat.template[i].format_trait = "Display"
        /\ flat.template[i].format_options = DefaultOptions
        /\ flat.arguments[flat.template[i].index + 1].kind = "Lit"
        /\ flat.arguments[flat.template[i].index + 1].lit.kind = "Int"}

Thm_C15_IntInlinedIffFitsType ==
    Inlined =>
        \A i \in IntPlaceholders :
            LET p == flat.template[i]
                arg == flat.arguments[p.index + 1]
            IN /\ Len(fmt.template) = Len(flat.template)
               /\ FitsType(arg.lit) =>
                     fmt.template[i] = Literal(to_string(arg.lit.n))
               /\ ~FitsType(arg.lit) =>
                     /\ stage \notin {"ice", "rejected"}
                     /\ \E q \in SeqToSet(fmt.template) :
                           /\ [q EXCEPT !.index = p.index] = p
                           /\ InRange(q.index, fmt.arguments)
                           /\ fmt.arguments[q.index + 1] = arg

\* usize on a 16-bit target: 65535 is inlined, with its decimal text.
Wit_C15_PointerWidthBound ==
    /\ Inlined
    /\ opts.pointer_size = 16
    /\ Len(flat.arguments) = 1
    /\ flat.arguments[1].lit.ty = "Usize"
    /\ flat.arguments[1].lit.n = MaxOfBits(16)
    /\ fmt = [template |-> <<Literal("65535")>>, arguments |-> <<>>]
    /\ stage = "static"

(***************************************************************************)
(* What the template says about literal text: the text of every run of     *)
(* literal pieces between two placeholders, the runs without text left     *)
(* out.                                                                    *)
(***************************************************************************)
RECURSIVE RunTextsFrom(_, _)
RunTextsFrom(template, text) ==
    IF template = <<>> THEN (IF text = "" THEN <<>> ELSE <<text>>)
    ELSE IF Head(template).kind = "Literal"
    THEN RunTextsFrom(Tail(template), text \o Head(template).symbol)
    ELSE (IF text = "" THEN <<>> ELSE <<text>>) \o RunTextsFrom(Tail(template), "")

RunTexts(template) == RunTextsFrom(template, "")

\* The literal cursor at every write-literal op of the stream: the initial
\* cursor plus the literal-cursor offsets before the op.
RECURSIVE WriteStrCursors(_, _)
WriteStrCursors(ops, cursor) ==
    IF ops = <<>> THEN <<>>
    ELSE IF Head(ops).op = "OffsetPtr" /\ Head(ops).kind = "Literal"
    THEN WriteStrCursors(Tail(ops), cursor + Head(ops).n)
    ELSE IF Head(ops).op = "WriteStr"
    THEN <<cursor>> \o WriteStrCursors(Tail(ops), cursor)
    ELSE WriteStrCursors(Tail(ops), cursor)

StrEvents(events) == {k \in 1..Len(events) : events[k].kind = "Str"}

(***************************************************************************)
(* C16: the literal table never holds two entries with the same text, and  *)
(* at every write-literal op the literal cursor (0 plus the literal-cursor *)
(* offsets before it, negative ones included) is the in-range index of     *)
(* the text of the run the op writes; runs with the same text use the same *)
(* index.                                                                  *)
(***************************************************************************)
Thm_C16_LiteralsInterned ==
    Emitted =>
        LET cursors == WriteStrCursors(enc.format_ops, 0)
            texts == RunTexts(fmt.template)
        IN /\ \A i, j \in 1..Len(enc.literal_data) :
                 enc.literal_data[i] = enc.literal_data[j] => i = j
           /\ Len(cursors) = Len(texts)
           /\ \A k \in 1..Len(cursors) :
                 /\ InRange(cursors[k], enc.literal_data)
                 /\ enc.literal_data[cursors[k] + 1] = texts[k]
           /\ (stage = "exec" /\ chain[ip + 1].method = "write_str") =>
                 /\ InRange(state.literal_ptr, enc.literal_data)
                 /\ state.literal_ptr = cursors[Cardinality(StrEvents(sink)) + 1]

\* "a{}b{}a" written to the end: the third write goes back to entry 0.
Wit_C16_EntryRevisited ==
    /\ stage = "done" /\ result = "Ok"
    /\ Cardinality(StrEvents(sink)) = 3
    /\ Len(enc.literal_data) = 2
    /\ state.literal_ptr = 0
    /\ \E k \in 1..Len(enc.format_ops) :
          enc.format_ops[k].op = "OffsetPtr" /\ enc.format_ops[k].kind = "Literal"
          /\ enc.format_ops[k].n < 0

(***************************************************************************)
(* The option changes a template asks for: walking the placeholders in     *)
(* order from flags 0, fill ' ', no alignment, no width and no precision,  *)
(* one change per channel whose value differs from the value last set.     *)
(***************************************************************************)
InitialChannels ==
    [flags |-> {}, fill |-> " ", align |-> "None", width |-> NoCount, precision |-> NoCount]

PlaceholderChannels(o) ==
    [flags |-> OptionFlags(o),
     fill |-> IF o.fill = "None" THEN " " ELSE o.fill,
     align |-> o.alignment,
     width |-> o.width,
     precision |-> o.precision]

\* What a change of width or precision shows in the stream: an argument
\* sourced count shows as "Dyn", the argument being found by the cursor.
CountShown(count) == IF count.kind = "Argument" THEN "Dyn" ELSE count

ChannelChanges(cur, new) ==
    (IF cur.flags # new.flags THEN <<(<<"flags", new.flags>>)>> ELSE <<>>)
    \o (IF cur.fill # new.fill THEN <<(<<"fill", new.fill>>)>> ELSE <<>>)
    \o (IF cur.align # new.align THEN <<(<<"align", new.align>>)>> ELSE <<>>)
    \o (IF cur.width # new.width THEN <<(<<"width", CountShown(new.width)>>)>> ELSE <<>>)
    \o (IF cur.precision # new.precision
        THEN <<(<<"precision", CountShown(new.precision)>>)>> ELSE <<>>)

RECURSIVE ExpectedChanges(_, _)
ExpectedChanges(template, cur) ==
    IF template = <<>> THEN <<>>
    ELSE IF Head(template).kind # "Placeholder" THEN ExpectedChanges(Tail(template), cur)
    ELSE ChannelChanges(cur, PlaceholderChannels(Head(template).format_options))
         \o ExpectedChanges(Tail(template), PlaceholderChannels(Head(template).format_options))

\* The option changes of the stream, in stream order.
ChangeOf(op) ==
    CASE op.op = "SetFlags" -> <<(<<"flags", FlagSet(op.n)>>)>>
      [] op.op = "SetFill" -> <<(<<"fill", op.fill>>)>>
      [] op.op = "ClearAlign" -> <<(<<"align", "None">>)>>
      [] op.op = "SetLeftAlign" -> <<(<<"align", "Left">>)>>
      [] op.op = "SetRightAlign" -> <<(<<"align", "Right">>)>>
      [] op.op = "SetCenterAlign" -> <<(<<"align", "Center">>)>>
      [] op.op = "ClearWidth" -> <<(<<"width", NoCount>>)>>
      [] op.op = "SetWidth" -> <<(<<"width", CountLiteral(op.n)>>)>>
      [] op.op = "SetDynWidth" -> <<(<<"width", "Dyn">>)>>
      [] op.op = "ClearPrecision" -> <<(<<"precision", NoCount>>)>>
      [] op.op = "SetPrecision" -> <<(<<"precision", CountLiteral(op.n)>>)>>
      [] op.op = "SetDynPrecision" -> <<(<<"precision", "Dyn">>)>>
      [] OTHER -> <<>>

RECURSIVE StreamChanges(_)
StreamChanges(ops) ==
    IF ops = <<>> THEN <<>> ELSE ChangeOf(Head(ops)) \o StreamChanges(Tail(ops))

(***************************************************************************)
(* C17: no set-flags, set-fill, alignment, width or precision op of an     *)
(* encoded stream sets its channel to the value the channel has at that    *)
(* point, no cursor-offset op has offset 0, and a change op is emitted for *)
(* a channel exactly when a placeholder's value for it differs from the    *)
(* value last set.                                                         *)
(***************************************************************************)
Thm_C17_NoRedundantOps ==
    Emitted =>
        /\ StreamChanges(enc.format_ops) = ExpectedChanges(fmt.template, InitialChannels)
        /\ \A k \in 1..Len(enc.format_ops) :
              enc.format_ops[k].op = "OffsetPtr" => enc.format_ops[k].n # 0

\* "{0:*>1$}{0:1$.1$}": the width is set once, fill and alignment go back.
Wit_C17_SharedWidthElided ==
    /\ Emitted
    /\ Len(fmt.template) = 2
    /\ fmt.template[1].format_options.width = CountArgument(1)
    /\ fmt.template[2].format_options.width = CountArgument(1)
    /\ fmt.template[1].format_options.fill = "*"
    /\ fmt.template[2].format_options.fill = "None"
    /\ Cardinality({k \in 1..Len(enc.format_ops) : enc.format_ops[k].op = "SetDynWidth"}) = 1
    /\ Cardinality({k \in 1..Len(enc.format_ops) : enc.format_ops[k].op = "SetFill"}) = 2
    /\ \E k \in 1..Len(enc.format_ops) : enc.format_ops[k].op = "ClearAlign"


(***************************************************************************)
(* C18: from_static_str is emitted only for a call site that was written   *)
(* with no arguments; a call site whose arguments were all removed by      *)
(* flattening and inlining gets from_static_str_with_lifetime; either way  *)
(* the literal table holds at most one entry.                              *)
(***************************************************************************)
NoArgumentsLeft == stage # "source" /\ fmt.arguments = <<>>

Thm_C18_ConstOnlyForOriginallyEmpty ==
    /\ constructor = "from_static_str" => src.arguments = <<>>
    /\ (NoArgumentsLeft /\ src.arguments # <<>>) =>
            constructor = "from_static_str_with_lifetime"
    /\ NoArgumentsLeft =>
            /\ stage = "static"
            /\ constructor \in {"from_static_str", "from_static_str_with_lifetime"}
            /\ Len(enc.literal_data) <= 1

Wit_C18_EmptiedByInlining ==
    /\ stage = "static"
    /\ src.arguments # <<>>
    /\ fmt.arguments = <<>>
    /\ constructor = "from_static_str_with_lifetime"
    /\ Len(enc.literal_data) = 1


(***************************************************************************)
(* C19: with at least one argument left, the estimated capacity is 0 when  *)
(* the first operation is not a write-literal and the non-empty literal    *)
(* pieces total fewer than 16 bytes; otherwise it is twice that total,     *)
(* capped at isize::MAX of the target. The code does not cap: a doubled    *)
(* length above isize::MAX makes the capacity 0.                           *)
(***************************************************************************)
CapacityEmitted == constructor = "new"

RECURSIVE TotalLiteralBytes(_, _)
TotalLiteralBytes(template, k) ==
    IF k = 0 THEN 0
    ELSE TotalLiteralBytes(template, k - 1)
         + (IF template[k].kind = "Literal" THEN Len(template[k].symbol) ELSE 0)

FirstOpWritesLiteral == Len(enc.format_ops) > 0 /\ enc.format_ops[1].op = "WriteStr"

\* isize::MAX of a 16- or 32-bit target; a 64-bit one is above every length here.
ExceedsIsizeMax(n) ==
    opts.pointer_size <= 32 /\ n > (2 ^ (opts.pointer_size - 2) - 1) * 2 + 1

IsizeMaxIfExceeded == (2 ^ (opts.pointer_size - 2) - 1) * 2 + 1

NoPreallocation ==
    ~FirstOpWritesLiteral /\ TotalLiteralBytes(fmt.template, Len(fmt.template)) < 16

\* The claim as written: the doubled length is capped at isize::MAX.
Claim_C19_CapacityCapped ==
    CapacityEmitted =>
        LET total == TotalLiteralBytes(fmt.template, Len(fmt.template))
        IN estimated_capacity =
              IF NoPreallocation THEN 0
              ELSE IF ExceedsIsizeMax(2 * total) THEN IsizeMaxIfExceeded
              ELSE 2 * total

\* C19 as the code has it: a doubled length above isize::MAX gives 0.
Thm_C19_CapacityDoubledOrZero ==
    CapacityEmitted =>
        LET total == TotalLiteralBytes(fmt.template, Len(fmt.template))
        IN /\ estimated_capacity =
                 IF NoPreallocation \/ ExceedsIsizeMax(2 * total) THEN 0
                 ELSE 2 * total
           /\ ~ExceedsIsizeMax(estimated_capacity)

Wit_C19_DoubledAboveIsizeMax ==
    /\ CapacityEmitted
    /\ opts.pointer_size = 16
    /\ TotalLiteralBytes(fmt.template, Len(fmt.template)) = 16384
    /\ src.arguments # fmt.arguments
    /\ estimated_capacity = 0


(***************************************************************************)
(* C20: after inlining, every run of literal text between two placeholders *)
(* that stay (the text written in the call and the text of the literals    *)
(* inlined into it, empty pieces contributing nothing) is written by one   *)
(* write-literal op, whose table entry is the concatenation of the run.    *)
(* format_args!("Hello, {}! {} {}", "World", 123, x) gets the one entry    *)
(* "Hello, World! 123 ", one argument slot bound to x, and the ops         *)
(* [WriteStr, FmtValue Display].                                           *)
(***************************************************************************)
\* The placeholder of the call as written shows a literal that is inlined.
ShowsInlinableLiteral(piece, arguments) ==
    /\ piece.kind = "Placeholder"
    /\ piece.format_trait = "Display"
    /\ piece.format_options = DefaultOptions
    /\ InRange(piece.index, arguments)
    /\ arguments[piece.index + 1].kind = "Lit"
    /\ LET lit == arguments[piece.index + 1].lit
       IN lit.kind = "Str" \/ FitsType(lit)

FlushRun(text) == IF text = "" THEN <<>> ELSE <<text>>

\* The runs of text of the call as written, literals to inline included.
RECURSIVE SourceRuns(_, _, _)
SourceRuns(template, arguments, text) ==
    IF template = <<>> THEN FlushRun(text)
    ELSE LET piece == Head(template) IN
         IF piece.kind = "Literal"
         THEN SourceRuns(Tail(template), arguments, text \o piece.symbol)
         ELSE IF ShowsInlinableLiteral(piece, arguments)
         THEN SourceRuns(Tail(template), arguments,
                         text \o Stringify(arguments[piece.index + 1].lit))
         ELSE FlushRun(text) \o SourceRuns(Tail(template), arguments, "")

\* The table entries the write-literal ops of the stream read, in op order.
WrittenEntries ==
    LET cursors == WriteStrCursors(enc.format_ops, 0)
    IN [k \in 1..Len(cursors) |->
            IF InRange(cursors[k], enc.literal_data)
            THEN enc.literal_data[cursors[k] + 1] ELSE "<out of range>"]

IsHelloCallSite ==
    /\ src.arguments = HelloArguments
    /\ Len(src.template) = 6
    /\ src.template[1].symbol = "Hello, "

Thm_C20_RunsMergedIntoOneWrite ==
    (Inlined /\ constructor # NoConstructor) =>
        /\ WrittenEntries = SourceRuns(flat.template, flat.arguments, "")
        /\ IsHelloCallSite =>
              /\ enc.literal_data = <<"Hello, World! 123 ">>
              /\ fmt.arguments = <<ExprPath(3, 5)>>
              /\ args_tuple = <<ExprPath(3, 5)>>
              /\ enc.argument_data = <<[index |-> 0, usage |-> "Ref"]>>
              /\ Len(enc.format_ops) = 2
              /\ enc.format_ops[1] = WriteStr
              /\ enc.format_ops[2].op = "FmtValue"
              /\ enc.format_ops[2].placeholder.format_trait = "Display"
              /\ enc.format_ops[2].placeholder.index = 0

\* The Hello call site, formatted to the end.
Wit_C20_HelloMerged ==
    /\ IsHelloCallSite
    /\ stage = "done" /\ result = "Ok"
    /\ WrittenEntries = <<"Hello, World! 123 ">>
    /\ Len(sink) = 2


(***************************************************************************)
(* C21: a successful allocation starts with the strong count asked for     *)
(* (1 for a RawRc, 0 for a RawUniqueRc or new_cyclic) and weak count 1; a  *)
(* failed one makes a try_ constructor return the error with no handle and *)
(* no block, and makes every other constructor enter the out-of-memory     *)
(* handler, from which nothing returns.                                    *)
(***************************************************************************)
C21_Started(strong_count, handles, states) ==
    /\ ctor' \in states
    /\ allocated'
    /\ strong' = strong_count
    /\ weak' = 1
    /\ rcs' = handles
    /\ wks' = 0
    /\ block'.rc_ptr >= 0

C21_Nothing(outcome) ==
    /\ ctor' = outcome
    /\ ~allocated'
    /\ strong' = 0 /\ weak' = 0 /\ rcs' = 0 /\ wks' = 0
    /\ block' = NoBlock

C21_Step ==
    \A t \in Threads :
        /\ RawRc_try_new(t) => C21_Started(1, 1, {"built"}) \/ C21_Nothing("alloc_error")
        /\ RawRc_new(t) => C21_Started(1, 1, {"built"}) \/ C21_Nothing("handle_alloc_error")
        /\ RawUniqueRc_new(t) =>
              C21_Started(0, 0, {"unique"}) \/ C21_Nothing("handle_alloc_error")
        /\ RawRc_new_cyclic(t) =>
              C21_Started(0, 0, {"cyclic"}) \/ C21_Nothing("handle_alloc_error")

C21_Failed == ctor \in {"alloc_error", "handle_alloc_error"}

Thm_C21_AllocationStartsCounts ==
    [][/\ C21_Step
       /\ C21_Failed => (C21_Failed' /\ C21_Nothing(ctor))]_vars

Wit_C21_UniqueStartsAtZero ==
    /\ lastOp = "RawUniqueRc::new"
    /\ allocated /\ strong = 0 /\ weak = 1


(***************************************************************************)
(* C22: RawWeak::upgrade returns a strong handle, with the strong count    *)
(* one higher, exactly when the strong count was not 0 at the test;        *)
(* otherwise it returns None and the strong count stays; the weak count    *)
(* stays in both cases.                                                    *)
(***************************************************************************)
C22_Step ==
    \A t \in Threads :
        RawWeak_upgrade(t) =>
            /\ weak' = weak /\ wks' = wks
            /\ IF strong # 0
               THEN /\ strong' = strong + 1
                    /\ rcs' = rcs + 1
                    /\ lastOp' = "RawWeak::upgrade=Some"
               ELSE /\ strong' = strong
                    /\ rcs' = rcs
                    /\ lastOp' = "RawWeak::upgrade=None"

Thm_C22_UpgradeIffStrongNonZero == [][C22_Step]_vars

\* An upgrade refused while the value is initialized: a weak handle of a
\* RawUniqueRc, or of an allocation whose last strong handle is going away.
Wit_C22_RefusedAtZero ==
    /\ lastOp = "RawWeak::upgrade=None"
    /\ strong = 0 /\ weak >= 2
    /\ payload = "init"


(***************************************************************************)
(* C23: make_mut called with strong = 1 and weak > 1 sets the old strong   *)
(* count to 0, moves the value (no clone, no destructor) into a new block  *)
(* with strong 1 and weak 1, decrements the old weak count by one,         *)
(* deallocates the old block only if that was the last weak reference, and *)
(* leaves the handle pointing to the new block.                            *)
(***************************************************************************)
MovePositions == {"make_mut_move", "make_mut_drop_unchecked", "make_mut_deallocate"}

\* The thread is in the move path: Move was chosen, the value was not dropped.
Moving(t) ==
    \/ pc[t] = "make_mut_move"
    \/ pc[t] \in MovePositions /\ payload = "moved"

C23_Step ==
    \A t \in Threads :
        /\ (make_mut(t) /\ strong = 1 /\ weak > 1) =>
              /\ strong' = 0 /\ weak' = weak
              /\ pc'[t] = "make_mut_move"
              /\ new_block' = NoAllocation /\ self_ptr' = "old"
        /\ (make_mut_move(t) /\ pc'[t] # "handle_alloc_error") =>
              /\ new_block' = [allocated |-> TRUE, strong |-> 1, weak |-> 1,
                               payload |-> "moved"]
              /\ payload \in {"init", "uninit", "zeroed"} /\ payload' = "moved"
              /\ destroyed' = destroyed
              /\ strong' = 0 /\ weak' = weak /\ allocated' = allocated
        /\ (Moving(t) /\ make_mut_drop_unchecked(t)) =>
              /\ weak' = weak - 1
              /\ allocated' = allocated /\ destroyed' = destroyed
              /\ pc'[t] = "make_mut_deallocate" <=> weak' = 0
              /\ self_ptr' = "new" <=> weak' # 0
        /\ (Moving(t) /\ make_mut_deallocate(t)) =>
              /\ weak = 0 /\ wks = 0 /\ allocated /\ ~allocated'
              /\ self_ptr' = "new"

C23_State ==
    /\ \A t \in Threads : Moving(t) => strong = 0 /\ rcs = 0 /\ allocated /\ ~uaf
    /\ (self_ptr = "new" /\ payload = "moved") =>
          /\ new_block = [allocated |-> TRUE, strong |-> 1, weak |-> 1, payload |-> "moved"]
          /\ strong = 0 /\ destroyed = 0
          /\ ~allocated => weak = 0

Thm_C23_MakeMutMoves == [](C23_State) /\ [][C23_Step]_vars

\* The move finished while another weak handle keeps the old block alive.
Wit_C23_MovedOldBlockKept ==
    /\ self_ptr = "new" /\ payload = "moved"
    /\ new_block.strong = 1 /\ new_block.payload = "moved"
    /\ strong = 0 /\ weak = 1 /\ wks = 1 /\ allocated
    /\ \A t \in Threads : pc[t] = "idle"


(***************************************************************************)
(* C24: make_mut called with strong > 1 clones the value into a new block  *)
(* with strong 1 and weak 1, decrements the old strong count by one with   *)
(* RawRc::drop, leaves the old weak count alone while other strong handles *)
(* remain, and leaves the handle pointing to the new block.                *)
(***************************************************************************)
C24_Step ==
    \A t \in Threads :
        /\ (make_mut(t) /\ strong > 1) =>
              /\ strong' = strong /\ weak' = weak
              /\ pc'[t] = "make_mut_clone"
              /\ new_block' = NoAllocation /\ self_ptr' = "old"
        /\ (make_mut_clone(t) /\ pc'[t] # "handle_alloc_error") =>
              /\ new_block' = [allocated |-> TRUE, strong |-> 1, weak |-> 1,
                               payload |-> "cloned"]
              /\ payload' = payload /\ payload \in {"init", "uninit", "zeroed"}
              /\ strong' = strong /\ weak' = weak /\ destroyed' = destroyed
              /\ pc'[t] = "make_mut_rc_drop"
        /\ make_mut_rc_drop(t) =>
              /\ strong >= 1 /\ strong' = strong - 1
              /\ weak' = weak /\ payload' = payload /\ destroyed' = destroyed
              /\ strong' > 0 => (self_ptr' = "new" /\ pc'[t] = "idle")
              /\ strong' = 0 => pc'[t] = "make_mut_assume_init_drop"

C24_State ==
    /\ \A t \in Threads :
          pc[t] \in {"make_mut_clone", "make_mut_rc_drop"} =>
              strong >= 1 /\ payload \in {"init", "uninit", "zeroed"} /\ allocated /\ ~uaf
    /\ (self_ptr = "new" /\ new_block.payload = "cloned") =>
          new_block = [allocated |-> TRUE, strong |-> 1, weak |-> 1, payload |-> "cloned"]

Thm_C24_MakeMutClones == [](C24_State) /\ [][C24_Step]_vars

\* The clone finished and the other strong handle still owns the old value.
Wit_C24_ClonedOldValueShared ==
    /\ self_ptr = "new" /\ new_block.payload = "cloned"
    /\ strong = 1 /\ rcs = 1 /\ weak = 1 /\ payload = "init" /\ destroyed = 0
    /\ \A t \in Threads : pc[t] = "idle"


(***************************************************************************)
(* C25: in the move path of make_mut the strong count of the old block is  *)
(* 0 from the decision on, before and after the bytes are copied, so every *)
(* concurrent RawWeak::upgrade on the old block returns None.              *)
(***************************************************************************)
\* Move was decided: the copy is pending, or it has been made.
MoveDecided ==
    \/ \E t \in Threads : pc[t] = "make_mut_move"
    \/ payload = "moved"

C25_Step ==
    /\ MoveDecided => strong' = 0 /\ lastOp' # "RawWeak::upgrade=Some"
    /\ \A t \in Threads :
          (MoveDecided /\ RawWeak_upgrade(t)) =>
              /\ lastOp' = "RawWeak::upgrade=None"
              /\ rcs' = rcs /\ payload' = payload /\ new_block' = new_block

Thm_C25_NoUpgradeDuringMove == [](MoveDecided => strong = 0 /\ rcs = 0) /\ [][C25_Step]_vars

\* An upgrade was attempted, and refused, before the bytes were copied.
Wit_C25_UpgradeRefusedBeforeCopy ==
    /\ \E t \in Threads : pc[t] = "make_mut_move"
    /\ lastOp = "RawWeak::upgrade=None"
    /\ payload = "init" /\ wks >= 1 /\ allocated


(***************************************************************************)
(* C26: a RawUniqueRc, and the block new_cyclic constructs in, has strong  *)
(* count 0 and a value that is initialized or about to be: upgrades of its *)
(* weak handles return None until into_rc, into_rc sets the strong count   *)
(* to 1 and leaves the weak count alone, and upgrades succeed afterwards   *)
(* for as long as a strong handle is alive.                                *)
(***************************************************************************)
UnderConstruction == ctor \in {"unique", "cyclic", "cyclic_written"}

C26_State ==
    UnderConstruction =>
        /\ strong = 0 /\ rcs = 0
        /\ allocated /\ weak >= wks + 1 /\ destroyed = 0
        /\ payload = IF ctor = "cyclic" THEN "uninit" ELSE "init"

C26_Step ==
    \A t \in Threads :
        /\ (UnderConstruction /\ RawWeak_upgrade(t)) =>
              /\ lastOp' = "RawWeak::upgrade=None"
              /\ strong' = 0 /\ rcs' = 0 /\ weak' = weak
        /\ RawUniqueRc_into_rc(t) =>
              /\ strong = 0 /\ strong' = 1 /\ rcs' = 1
              /\ weak' = weak /\ wks' = wks
              /\ payload = "init" /\ payload' = "init"
        /\ (ctor = "built" /\ rcs >= 1 /\ RawWeak_upgrade(t)) =>
              /\ lastOp' = "RawWeak::upgrade=Some"
              /\ strong' = strong + 1 /\ rcs' = rcs + 1

SaturatingSub(a, b) == IF a >= b THEN a - b ELSE 0

BlockAllocated == block # NoBlock

Thm_C27_AllocationLayout ==
    BlockAllocated =>
        LET counts_size == size_of_RefCounts(value_layout.pointer_width)
            counts_align == align_of_RefCounts(value_layout.pointer_width)
            offset == Max(counts_size, value_layout.align)
            value_at == block.value_ptr - block.rc_ptr
            counts_at == block.ref_counts_ptr - block.rc_ptr
        IN /\ block.rc_layout.align = Max(counts_align, value_layout.align)
           /\ block.rc_layout.size = offset + value_layout.size
           /\ block.rc_layout = from_value_layout_unchecked(value_layout)
           /\ value_at = offset
           /\ value_at % value_layout.align = 0
           /\ block.value_ptr % value_layout.align = 0
           /\ counts_at = offset - counts_size
           /\ counts_at = SaturatingSub(value_layout.align, counts_size)
           /\ counts_at >= 0
           /\ counts_at % counts_align = 0
           /\ block.ref_counts_ptr % counts_align = 0
           /\ block.value_ptr - block.ref_counts_ptr = counts_size
           /\ block.ref_counts_ptr + counts_size <= block.value_ptr
           /\ block.value_ptr + value_layout.size = block.rc_ptr + block.rc_layout.size
           /\ value_size(block.rc_layout) = value_layout.size

\* A value aligned more strictly than the counts are large: the block starts
\* with padding and the counts are not at its beginning.
Wit_C27_CountsAfterPadding ==
    /\ BlockAllocated
    /\ value_layout = [size |-> 64, align |-> 64, pointer_width |-> 16]
    /\ block.ref_counts_ptr - block.rc_ptr = 60
    /\ block.value_ptr - block.rc_ptr = 64
    /\ block.rc_layout.size = 128


(***************************************************************************)
(* C28: for every template with at least one argument and every setting of *)
(* fmt_debug, the chain the emitter builds ends at a terminal operation:   *)
(* the operation executed last is write_str or a fmt_* method, never an    *)
(* option-setting or pointer-offset operation, also when the last piece of *)
(* the template is a Debug placeholder.                                    *)
(***************************************************************************)
\* The emitter ran on a template that formats at least one argument.
EmittedWithPlaceholder ==
    /\ Emitted /\ stage # "ice" /\ fmt.arguments # <<>>
    /\ \E i \in 1..Len(fmt.template) : fmt.template[i].kind = "Placeholder"

Claim_C28_ChainEndsAtTerminal ==
    EmittedWithPlaceholder =>
        /\ chain # <<>>
        /\ chain[Len(chain)].method = "write_str" \/ IsFmtMethod(chain[Len(chain)].method)


(***************************************************************************)
(* C29: flatten_format_args terminates on every finitely nested template,  *)
(* and its result has no Display or Debug placeholder left whose argument  *)
(* is a nested format template that this placeholder alone refers to: the  *)
(* scan stays on the spliced-in pieces, so the nested templates inside     *)
(* them are flattened as well.                                             *)
(***************************************************************************)
\* The nested format templates among the arguments, at every depth.
RECURSIVE NestedTemplateCount(_)
NestedTemplateCount(arguments) ==
    IF arguments = <<>> THEN 0
    ELSE (IF peel_parens_and_refs(Head(arguments)).kind = "FormatArgs"
          THEN 1 + NestedTemplateCount(Head(arguments).fmt.arguments)
          ELSE 0)
         + NestedTemplateCount(Tail(arguments))

\* The iterations of the while loop started at piece i.
RECURSIVE LoopIterations(_, _)
LoopIterations(f, i) ==
    IF i >= Len(f.template) THEN 0
    ELSE IF CanFlatten(f, i)
         THEN 1 + LoopIterations(Splice(f, i), i)
         ELSE 1 + LoopIterations(f, i + 1)

\* The references to argument index, as value, width or precision.
ReferenceCount(template, index) ==
    Cardinality({k \in 1..Len(ArgumentIndexes(template)) :
                    ArgumentIndexes(template)[k] = index})

\* Piece i formats a nested template that nothing else refers to.
RefersAloneToNested(f, i) ==
    /\ f.template[i].kind = "Placeholder"
    /\ f.template[i].format_trait \in {"Display", "Debug"}
    /\ InRange(f.template[i].index, f.arguments)
    /\ f.arguments[f.template[i].index + 1].kind = "FormatArgs"
    /\ ReferenceCount(f.template, f.template[i].index) = 1

Thm_C29_FlattenReachesFixpoint ==
    Flattened =>
        /\ \A i \in 1..Len(flat.template) : ~RefersAloneToNested(flat, i)
        /\ NestedTemplateCount(flat.arguments) <= NestedTemplateCount(src.arguments)
        /\ LoopIterations(src, 0) =
              Len(flat.template)
              + NestedTemplateCount(src.arguments) - NestedTemplateCount(flat.arguments)

\* A template nested in a spliced-in template was spliced in turn: two
\* splices and one pass over the pieces of the result.
Wit_C29_InnerTemplateFlattened ==
    /\ Flattened
    /\ src.arguments = NestedDeep
    /\ NestedTemplateCount(src.arguments) = 2
    /\ NestedTemplateCount(flat.arguments) = 0
    /\ LoopIterations(src, 0) = Len(flat.template) + 2
    /\ \E i \in 1..Len(src.template) : RefersAloneToNested(src, i)


(***************************************************************************)
(* C30: at every set_dyn_width, set_dyn_precision and fmt_* op of an       *)
(* encoded stream the argument cursor (0 plus the argument-cursor offsets  *)
(* before the op) is an index of the argument slot table, and the slot     *)
(* there holds the argument index the op refers to, with usage Usize for   *)
(* the two dynamic-set ops and usage Ref for a formatted value; an         *)
(* argument used both ways has two slots.                                  *)
(***************************************************************************)
\* The argument cursor before op k of the stream.
RECURSIVE ArgumentCursor(_, _)
ArgumentCursor(ops, k) ==
    IF k <= 1 THEN 0
    ELSE ArgumentCursor(ops, k - 1)
         + (IF ops[k - 1].op = "OffsetPtr" /\ ops[k - 1].kind = "Argument"
            THEN ops[k - 1].n ELSE 0)

\* Ops k.. up to the next FmtValue encode one placeholder.
HasOwner(ops, k) == \E j \in k..Len(ops) : ops[j].op = "FmtValue"

Owner(ops, k) ==
    ops[CHOOSE j \in k..Len(ops) :
            /\ ops[j].op = "FmtValue"
            /\ \A l \in k..(j - 1) : ops[l].op # "FmtValue"].placeholder

SlotAt(k) == enc.argument_data[ArgumentCursor(enc.format_ops, k) + 1]

C30_Stream ==
    \A k \in 1..Len(enc.format_ops) :
        LET op == enc.format_ops[k] IN
        op.op \in {"SetDynWidth", "SetDynPrecision", "FmtValue"} =>
            /\ InRange(ArgumentCursor(enc.format_ops, k), enc.argument_data)
            /\ HasOwner(enc.format_ops, k)
            /\ op.op = "FmtValue" =>
                  SlotAt(k) = [index |-> op.placeholder.index, usage |-> "Ref"]
            /\ op.op = "SetDynWidth" =>
                  LET width == Owner(enc.format_ops, k).format_options.width
                  IN /\ width.kind = "Argument"
                     /\ SlotAt(k) = [index |-> width.n, usage |-> "Usize"]
            /\ op.op = "SetDynPrecision" =>
                  LET precision == Owner(enc.format_ops, k).format_options.precision
                  IN /\ precision.kind = "Argument"
                     /\ SlotAt(k) = [index |-> precision.n, usage |-> "Usize"]

C30_Running ==
    (stage = "exec" /\ ip < Len(chain)) =>
        LET m == chain[ip + 1].method IN
        /\ m \in {"set_dyn_width", "set_dyn_precision"} =>
              /\ InRange(state.argument_ptr, enc.argument_data)
              /\ enc.argument_data[state.argument_ptr + 1].usage = "Usize"
        /\ IsFmtMethod(m) =>
              /\ InRange(state.argument_ptr, enc.argument_data)
              /\ enc.argument_data[state.argument_ptr + 1].usage = "Ref"

Thm_C30_ArgumentCursorOnSlot ==
    Emitted =>
        /\ C30_Stream
        /\ C30_Running
        /\ \A i, j \in 1..Len(enc.argument_data) :
              enc.argument_data[i] = enc.argument_data[j] => i = j

\* One argument is both a width and a formatted value: two slots, and the
\* cursor moves back to reach one of them.
Wit_C30_ArgumentUsedBothWays ==
    /\ Emitted
    /\ \E i, j \in 1..Len(enc.argument_data) :
          /\ enc.argument_data[i].index = enc.argument_data[j].index
          /\ enc.argument_data[i].usage = "Usize"
          /\ enc.argument_data[j].usage = "Ref"
    /\ \E k \in 1..Len(enc.format_ops) : enc.format_ops[k].op = "SetDynWidth"
    /\ \E k \in 1..Len(enc.format_ops) :
          /\ enc.format_ops[k].op = "OffsetPtr"
          /\ enc.format_ops[k].kind = "Argument"
          /\ enc.format_ops[k].n < 0


(***************************************************************************)
(* C31: each runtime operation changes only its own part of State: an      *)
(* offset op only its cursor, an option op only its option, and none of    *)
(* these writes to the sink or fails; write_str leaves both cursors and    *)
(* all options as they are, so an option lasts until an op of the same     *)
(* channel changes it.                                                     *)
(***************************************************************************)
\* The field of State a method assigns.
OwnField(method) ==
    CASE method = "offset_literal_ptr" -> "literal_ptr"
      [] method = "offset_argument_ptr" -> "argument_ptr"
      [] method = "set_flags" -> "flags"
      [] method = "set_fill" -> "fill"
      [] method \in {"clear_align", "set_left_align", "set_right_align",
                     "set_center_align"} -> "align"
      [] method \in {"clear_width", "set_width", "set_dyn_width"} -> "width"
      [] method \in {"clear_precision", "set_precision", "set_dyn_precision"} -> "precision"
      [] OTHER -> "none"

C31_Step ==
    (stage = "exec" /\ <<stage, ip, result>>' # <<stage, ip, result>>) =>
        LET m == chain[ip + 1] IN
        /\ \A field \in DOMAIN state :
              field # OwnField(m.method) => state'[field] = state[field]
        /\ OwnField(m.method) # "none" =>
              /\ sink' = sink
              /\ result' # "Err" /\ stage' # "ub"
              /\ ip' = ip + 1
        /\ m.method = "offset_literal_ptr" => state'.literal_ptr = state.literal_ptr + m.n
        /\ m.method = "offset_argument_ptr" => state'.argument_ptr = state.argument_ptr + m.n
        /\ m.method = "set_flags" => state'.flags = m.n
        /\ m.method = "set_fill" => state'.fill = m.fill
        /\ m.method = "set_width" => state'.width = m.n
        /\ m.method = "set_precision" => state'.precision = m.n
        /\ m.method = "write_str" =>
              /\ state' = state
              /\ Len(sink') <= Len(sink) + 1

Thm_C31_OpsChangeOwnFieldOnly == [][C31_Step]_vars

\* A width set for the first placeholder is still in force after a literal
\* was written and the cursors have moved.
Wit_C31_WidthSurvivesWrite ==
    /\ stage \in {"exec", "done"} /\ ip >= 1
    /\ chain[ip].method = "write_str"
    /\ state.width # -1 /\ state.literal_ptr # 0
    /\ \E k \in 1..Len(sink) : sink[k].kind = "Str"


(***************************************************************************)
(* C32: RawRc::clone adds exactly one to the strong count and leaves the   *)
(* weak count alone; RawRc::downgrade and RawWeak::clone of a non-dangling *)
(* handle add exactly one to the weak count and leave the strong count     *)
(* alone; the new handle has the same value address; none of them fails,   *)
(* destroys the value or deallocates the block.                            *)
(***************************************************************************)
\* The step made one more handle and nothing else happened to the block.
C32_NewHandleOnly ==
    /\ payload' = payload /\ destroyed' = destroyed
    /\ deallocs' = deallocs /\ allocated' = allocated /\ allocated
    /\ block' = block /\ self_ptr' = self_ptr
    /\ pc' = pc /\ ctor' = ctor
    /\ uaf' = uaf /\ ~uaf

C32_Step ==
    \A t \in Threads :
        /\ RawRc_clone(t) =>
              /\ strong' = strong + 1 /\ weak' = weak
              /\ rcs' = rcs + 1 /\ wks' = wks
              /\ C32_NewHandleOnly
        /\ RawRc_downgrade(t) =>
              /\ weak' = weak + 1 /\ strong' = strong
              /\ wks' = wks + 1 /\ rcs' = rcs
              /\ C32_NewHandleOnly
        /\ RawWeak_clone(t) =>
              /\ weak' = weak + 1 /\ strong' = strong
              /\ wks' = wks + 1 /\ rcs' = rcs
              /\ C32_NewHandleOnly

Thm_C32_NewHandleAddsOne == [][C32_Step]_vars

\* A clone and a downgrade have both been made of the first handle.
Wit_C32_ClonedAndDowngraded ==
    /\ lastOp = "RawRc::downgrade"
    /\ strong = 2 /\ rcs = 2 /\ weak = 2 /\ wks = 1
    /\ payload = "init" /\ destroyed = 0 /\ deallocs = 0


(***************************************************************************)
(* C33: when RawRc::drop brings the strong count to 0 the value is         *)
(* destroyed first and the implicit weak reference is released afterwards  *)
(* (weak count decremented, block deallocated at 0), also when the         *)
(* destructor panics; when the strong count stays above 0, RawRc::drop     *)
(* neither destroys the value nor touches the weak count.                  *)
(***************************************************************************)
At(position) == {t \in Threads : pc[t] = position}

\* The weak references the weak count stands for: the handles, the
\* releases under way, and the implicit one of the strong handles.
WeakReferences ==
    wks + Cardinality(At("drop_unchecked"))
    + (IF strong > 0 \/ At("assume_init_drop") # {} THEN 1 ELSE 0)

C33_State ==
    /\ weak = WeakReferences
    /\ At("assume_init_drop") # {} => allocated /\ strong = 0 /\ payload = "init"
    /\ ~allocated => payload = "dropped" /\ weak = 0

C33_Step ==
    \A t \in Threads :
        /\ RawRc_drop(t) =>
              /\ strong' = strong - 1
              /\ weak' = weak /\ payload' = payload /\ destroyed' = destroyed
              /\ allocated' = allocated
              /\ pc'[t] = IF strong' = 0 THEN "assume_init_drop" ELSE "idle"
        /\ assume_init_drop(t) =>
              /\ payload' = "dropped" /\ destroyed' = destroyed + 1
              /\ weak' = weak /\ allocated' = allocated
              /\ pc'[t] = "drop_unchecked"
        /\ (pc[t] = "drop_unchecked" /\ drop_unchecked(t)) =>
              /\ weak' = weak - 1
              /\ pc'[t] = IF weak' = 0 THEN "deallocate_value_ptr" ELSE "idle"
        /\ deallocate_value_ptr(t) => weak = 0 /\ payload = "dropped"

Thm_C33_DestroyThenReleaseWeak == [](C33_State) /\ [][C33_Step]_vars

\* The destructor panicked: the value counts as dropped and the thread is
\* about to release the implicit weak reference, which a weak handle shares.
Wit_C33_PanickedDestructorReleases ==
    /\ lastOp = "drop_in_place panicked"
    /\ At("drop_unchecked") # {}
    /\ strong = 0 /\ weak = 2 /\ wks = 1 /\ allocated /\ payload = "dropped"


(***************************************************************************)
(* C34: a dangling RawWeak (address usize::MAX, from new_dangling) never   *)
(* touches a count block: clone returns another dangling handle and        *)
(* increments nothing, drop does and deallocates nothing, upgrade returns  *)
(* None, and ref_counts / strong_count / weak_count return None.           *)
(***************************************************************************)
\* Nothing of the allocation, its counts or its handles has changed.
C34_BlockUntouched ==
    UNCHANGED <<strong, weak, rcs, wks, pc, payload, destroyed, deallocs, allocated, uaf,
                ctor, block, new_block, self_ptr>>

C34_Step ==
    \A t \in Threads :
        /\ RawWeak_new_dangling(t) => C34_BlockUntouched /\ dangling' = dangling + 1
        /\ RawWeak_clone_dangling(t) => C34_BlockUntouched /\ dangling' = dangling + 1
        /\ RawWeak_drop_dangling(t) => C34_BlockUntouched /\ dangling' = dangling - 1
        /\ RawWeak_upgrade_dangling(t) =>
              /\ C34_BlockUntouched /\ dangling' = dangling
              /\ lastOp' = "RawWeak::upgrade(dangling)=None"
        /\ RawWeak_counts_dangling(t) =>
              /\ C34_BlockUntouched /\ dangling' = dangling
              /\ lastOp' \in {"RawWeak::ref_counts(dangling)=None",
                              "RawWeak::strong_count(dangling)=None",
                              "RawWeak::weak_count(dangling)=None"}

Thm_C34_DanglingTouchesNothing == [](~uaf) /\ [][C34_Step]_vars

\* An upgrade of a dangling handle was refused although a block with a
\* strong handle exists and a real weak handle could be upgraded.
Wit_C34_DanglingBesideLiveBlock ==
    /\ lastOp = "RawWeak::upgrade(dangling)=None"
    /\ dangling = 2
    /\ allocated /\ strong = 1 /\ rcs = 1 /\ wks = 1 /\ weak = 2


(***************************************************************************)
(* C35: RawRc::get_mut returns a mutable reference exactly when the strong *)
(* count is 1 and the weak count is 1, and changes neither count whether   *)
(* it returns the reference or None.                                       *)
(***************************************************************************)
C35_Step ==
    \A t \in Threads :
        RawRc_get_mut(t) =>
            /\ (lastOp' = "RawRc::get_mut=Some") <=> (strong = 1 /\ weak = 1)
            /\ lastOp' \in {"RawRc::get_mut=Some", "RawRc::get_mut=None"}
            /\ strong' = strong /\ weak' = weak
            /\ rcs' = rcs /\ wks' = wks /\ payload' = payload /\ allocated' = allocated

Thm_C35_GetMutIffUnique == [][C35_Step]_vars

\* get_mut was refused to the only strong handle because a weak handle exists.
Wit_C35_RefusedForWeakHandle ==
    /\ lastOp = "RawRc::get_mut=None"
    /\ strong = 1 /\ rcs = 1
    /\ weak = 2 /\ wks = 1


(***************************************************************************)
(* C36: RawRc::try_unwrap returns the payload exactly when the strong      *)
(* count was 1.  Then the strong count becomes 0, the payload is read out  *)
(* of the block and never destroyed in place, and the weak reference the   *)
(* strong handles owned is released, which deallocates the block if it was *)
(* the last one.  Otherwise the handle comes back as the error and the     *)
(* strong and weak counts are unchanged.                                   *)
(***************************************************************************)
C36_Step ==
    \A t \in Threads :
        /\ RawRc_try_unwrap(t) =>
              /\ (lastOp' = "RawRc::try_unwrap=Ok") <=> (strong = 1)
              /\ lastOp' = "RawRc::try_unwrap=Ok" =>
                    /\ strong' = 0 /\ rcs' = rcs - 1
                    /\ weak' = weak /\ payload' = payload /\ destroyed' = destroyed
                    /\ pc'[t] = "assume_init_into_inner"
              /\ lastOp' # "RawRc::try_unwrap=Ok" =>
                    /\ lastOp' = "RawRc::try_unwrap=Err"
                    /\ strong' = strong /\ weak' = weak /\ rcs' = rcs /\ wks' = wks
                    /\ payload' = payload /\ pc' = pc
        /\ assume_init_into_inner(t) =>
              /\ payload = "init" /\ payload' = "moved"
              /\ moved_out' = 1 /\ destroyed' = 0
              /\ weak' = weak /\ allocated /\ allocated'
              /\ pc'[t] = "drop_unchecked"
        /\ drop_unchecked(t) =>
              /\ weak' = weak - 1
              /\ pc'[t] = IF weak = 1 THEN "deallocate_value_ptr" ELSE "idle"
        /\ deallocate_value_ptr(t) => weak = 0 /\ allocated /\ ~allocated'

Thm_C36_TryUnwrapIffLastStrong ==
    [](destroyed = 0 /\ moved_out <= 1 /\ ~uaf) /\ [][C36_Step]_vars

\* try_unwrap succeeded on the only strong handle while a weak handle exists:
\* the strong count is 0 and the payload is about to be read out.
Wit_C36_UnwrapSucceeded ==
    /\ lastOp = "RawRc::try_unwrap=Ok"
    /\ strong = 0 /\ rcs = 0
    /\ weak = 2 /\ wks = 1
    /\ payload = "init" /\ allocated
    /\ \E t \in Threads : pc[t] = "assume_init_into_inner"


(***************************************************************************)
(* C37: when the strong handles of an allocation are consumed by           *)
(* RawRc::into_inner, in any interleaving of the calls, each decrement     *)
(* being atomic, exactly one call returns the payload, the one that brings *)
(* the strong count to 0, and every other call returns None; the payload   *)
(* is read out exactly once, is never destroyed in place, and the block is *)
(* deallocated only after the weak count reached 0.                        *)
(***************************************************************************)
C37_Quiescent == rcs = 0 /\ \A t \in Threads : Idle(t)

C37_State ==
    /\ strong = rcs
    /\ destroyed = 0
    /\ moved_out <= 1
    /\ moved_out = 1 => strong = 0 /\ payload = "moved"
    /\ C37_Quiescent => moved_out = 1
    /\ ~allocated => weak = 0 /\ moved_out = 1
    /\ ~uaf

C37_Step ==
    \A t \in Threads :
        RawRc_into_inner(t) =>
            /\ strong' = strong - 1 /\ rcs' = rcs - 1
            /\ (lastOp' = "RawRc::into_inner=Some") <=> (strong' = 0)
            /\ lastOp' = "RawRc::into_inner=Some" =>
                  /\ rcs' = 0 /\ moved_out = 0
                  /\ pc'[t] = "assume_init_into_inner"
            /\ lastOp' # "RawRc::into_inner=Some" =>
                  /\ lastOp' = "RawRc::into_inner=None"
                  /\ pc' = pc /\ payload' = payload /\ weak' = weak

Thm_C37_OneIntoInnerTakesPayload == [](C37_State) /\ [][C37_Step]_vars

\* into_inner consumed one of several strong handles and was answered None:
\* the payload is still in the block for the call that consumes the last one.
Wit_C37_EarlierCallGotNone ==
    /\ lastOp = "RawRc::into_inner=None"
    /\ strong = 1 /\ rcs = 1
    /\ payload = "init" /\ moved_out = 0 /\ allocated


(***************************************************************************)
(* C38: when RawRc::make_mut returns and no other operation ran on the     *)
(* allocations meanwhile, the allocation the handle points to has strong   *)
(* count 1 and weak count 1.  If the allocation had these counts already,  *)
(* nothing is allocated and no count changes; otherwise the handle points  *)
(* to a new allocation with these counts, and every other strong or weak   *)
(* handle still refers to the old allocation.                              *)
(***************************************************************************)
\* The counts of the old allocation are those of the handles left on it.
C38_OldHandlesKept ==
    /\ strong = rcs
    /\ allocated => weak = wks + (IF rcs > 0 THEN 1 ELSE 0)
    /\ ~allocated => rcs = 0 /\ wks = 0

C38_Step ==
    \A t \in Threads :
        /\ (make_mut(t) /\ strong = 1 /\ weak = 1) =>
              /\ lastOp' = "RawRc::make_mut=None"
              /\ strong' = 1 /\ weak' = 1 /\ rcs' = rcs /\ wks' = wks
              /\ new_block' = NoAllocation /\ self_ptr' = "old"
              /\ payload' = payload /\ allocated' /\ pc' = pc
        /\ (make_mut(t) /\ lastOp' = "RawRc::make_mut=None") => strong = 1 /\ weak = 1
        /\ (make_mut(t) /\ lastOp' # "RawRc::make_mut=None") =>
              /\ InMakeMut(t)'
              /\ rcs' = rcs - 1 /\ wks' = wks
              /\ new_block' = NoAllocation /\ self_ptr' = "old"
        /\ (InMakeMut(t) /\ pc'[t] # pc[t]) => rcs' = rcs /\ wks' = wks
        /\ (InMakeMut(t) /\ Idle(t)') =>
              /\ self_ptr = "old" /\ self_ptr' = "new"
              /\ new_block'.allocated /\ new_block'.strong = 1 /\ new_block'.weak = 1
              /\ new_block'.payload \in {"moved", "cloned"}
              /\ C38_OldHandlesKept'

C38_State ==
    self_ptr = "new" =>
        /\ new_block.allocated /\ new_block.strong = 1 /\ new_block.weak = 1
        /\ (\A t \in Threads : Idle(t)) => C38_OldHandlesKept

Thm_C38_MakeMutEndsUnique == [](C38_State) /\ [][C38_Step]_vars

\* make_mut cloned the value away from a second strong handle and a weak
\* handle, which both still refer to the old allocation.
Wit_C38_OthersStayOnOldBlock ==
    /\ self_ptr = "new" /\ new_block.payload = "cloned"
    /\ new_block.strong = 1 /\ new_block.weak = 1
    /\ strong = 1 /\ rcs = 1 /\ weak = 2 /\ wks = 1 /\ allocated
    /\ \A t \in Threads : Idle(t)


(***************************************************************************)
(* C39: when the closure that initializes the value panics, no block is    *)
(* leaked and no uninitialized value is destroyed.  In allocate_with_in    *)
(* the block is deallocated at once.  In new_cyclic the weak reference     *)
(* held during construction is released without a destructor call, so the  *)
(* block is deallocated as soon as every weak clone taken by data_fn has   *)
(* been dropped, and the strong count is 0 all along.                      *)
(***************************************************************************)
C39_Settled == \A t \in Threads : Idle(t)

C39_State ==
    /\ ctor = "new_with_panicked" =>
          /\ ~allocated /\ deallocs = 1
          /\ destroyed = 0 /\ payload = "uninit"
          /\ rcs = 0 /\ wks = 0
    /\ ctor \in {"cyclic", "panicked"} =>
          /\ strong = 0 /\ rcs = 0
          /\ destroyed = 0 /\ payload = "uninit"
          /\ At("assume_init_drop") = {}
    /\ ctor = "panicked" =>
          /\ weak = wks + Cardinality(At("drop_unchecked"))
          /\ allocated <=> deallocs = 0
          /\ ~allocated => weak = 0 /\ deallocs = 1
          /\ (C39_Settled /\ wks = 0) => ~allocated
    /\ ~uaf

C39_Step ==
    \A t \in Threads :
        /\ new_with_panic(t) =>
              /\ allocated /\ ~allocated' /\ deallocs' = deallocs + 1
              /\ destroyed' = destroyed /\ pc' = pc
        /\ data_fn_panic(t) =>
              /\ pc'[t] = "drop_unchecked"
              /\ strong' = 0 /\ weak' = weak /\ allocated'
        /\ (ctor = "panicked" /\ drop_unchecked(t)) =>
              /\ weak' = weak - 1
              /\ pc'[t] = IF weak' = 0 THEN "deallocate_value_ptr" ELSE "idle"
        /\ (ctor = "panicked" /\ RawWeak_upgrade(t)) =>
              lastOp' = "RawWeak::upgrade=None" /\ strong' = 0

Thm_C39_PanickingClosureLeaksNothing == [](C39_State) /\ [][C39_Step]_vars

\* data_fn cloned the weak handle and panicked: the weak reference of the
\* construction is released, and the clone alone keeps the block allocated.
Wit_C39_CyclicPanicCloneHoldsBlock ==
    /\ ctor = "panicked" /\ lastOp = "drop_unchecked"
    /\ allocated /\ deallocs = 0 /\ destroyed = 0
    /\ strong = 0 /\ weak = 1 /\ wks = 1
    /\ payload = "uninit"
    /\ \A t \in Threads : Idle(t)


(***************************************************************************)
(* C40: for every value layout for which RcLayout::try_from_value_layout   *)
(* returns Ok, RcLayout::from_value_layout_unchecked returns a layout of   *)
(* the same size and alignment, and RcLayout::value_offset, computed from  *)
(* the alignment of the block, is max(size_of RefCounts, value alignment): *)
(* the allocation, the place of the counts and the deallocation agree on   *)
(* where the block starts.                                                 *)
(***************************************************************************)
Thm_C40_LayoutsAgreeOnBlockStart ==
    LET checked == try_from_value_layout(value_layout)
        unchecked == from_value_layout_unchecked(value_layout)
        counts_size == size_of_RefCounts(value_layout.pointer_width)
        offset == Max(counts_size, value_layout.align)
    IN /\ try_from_value_layout_is_ok(value_layout) =>
             /\ unchecked.size = checked.size
             /\ unchecked.align = checked.align
             /\ value_offset(checked) = offset
             /\ value_offset(unchecked) = offset
             /\ checked.size <= isize_MAX(value_layout.pointer_width)
       /\ ~try_from_value_layout_is_ok(value_layout) =>
             block = NoBlock /\ released = NoRelease
       /\ block # NoBlock =>
             /\ block.rc_layout = checked
             /\ block.value_ptr = block.rc_ptr + offset
             /\ block.ref_counts_ptr = block.value_ptr - counts_size
             /\ block.ref_counts_ptr >= block.rc_ptr
       /\ released # NoRelease =>
             /\ block # NoBlock /\ ~allocated
             /\ released.rc_ptr = block.rc_ptr
             /\ released.rc_layout.size = block.rc_layout.size
             /\ released.rc_layout.align = block.rc_layout.align

\* A large value aligned more strictly than the counts are large, on a
\* 16 bit target: its block was allocated with padding before the counts and
\* was deallocated at the address it was allocated at.
Wit_C40_PaddedBlockReleasedAtStart ==
    /\ value_layout = [size |-> 32640, align |-> 64, pointer_width |-> 16]
    /\ released # NoRelease
    /\ released.rc_ptr = block.rc_ptr
    /\ block.value_ptr - block.rc_ptr = 64
    /\ released.rc_layout.size = 32704

====
